---------------------------- MODULE Spec2Model ----------------------------
(***************************************************************************)
(* QSerialTerminal: the terminal widget (document + VT-100 interpreter),   *)
(* the console (history, configuration) and the serial manager (port       *)
(* handle), as state machines.                                             *)
(*                                                                         *)
(* The document of the QPlainTextEdit is the sequence of its characters,   *)
(* a line break being the character LF.  Characters are one-character      *)
(* tokens; ESC stands for 0x1B and LF for '\n'.  Lines are not wrapped, so *)
(* that QTextCursor::StartOfLine is the position after the last LF.        *)
(***************************************************************************)
EXTENDS Integers, Sequences, FiniteSets, TLC

VARIABLES
    doc,              \* textEdit()->document(), as its characters
    m_terminalState,  \* TerminalWidget::m_terminalState
    m_emulateVt100,   \* TerminalWidget::m_emulateVt100
    m_autoscroll,     \* TerminalWidget::m_autoscroll
    last,             \* history variable: the last operation, its argument,
                      \* the document, interpreter state and port handle
                      \* before it, the textChanged signals it emitted
    stream,           \* history variable: all characters delivered so far
    twin,             \* a second run of the widget, for comparing two runs
    phase,            \* position of the two-run comparison
    m_historyItems,   \* Console::m_historyItems
    m_historyItem,    \* Console::m_historyItem, -1 when not browsing
    config,           \* Console: m_dataMode, m_displayMode, m_lineEnding,
                      \* m_echo, m_autoscroll, m_showTimestamp
    m_port,           \* Manager::m_port: "null", or a handle "open" or "closed"
    m_portIndex,      \* Manager::m_portIndex
    ports,            \* number of valid serial ports of the machine
    openPorts,        \* number of QSerialPort objects that are open
    m_file,           \* FileTransmission::m_file: whether it is open, its lines
    m_stream,         \* FileTransmission::m_stream: "null", or a stream that
                      \* is "live" or "deleted", and the lines it has read
    m_timer,          \* FileTransmission::m_timer is active
    running,          \* the process has not aborted
    m_baudRate,       \* Manager::m_baudRate
    m_baudRateIndex   \* Manager::m_baudRateIndex

termVars == <<doc, m_terminalState, m_emulateVt100, m_autoscroll>>
histVars == <<last, stream, twin, phase>>
consoleVars == <<m_historyItems, m_historyItem, config>>
managerVars == <<m_port, m_portIndex, ports, openPorts>>
fileVars == <<m_file, m_stream, m_timer, running>>
baudVars == <<m_baudRate, m_baudRateIndex>>
vars == <<doc, m_terminalState, m_emulateVt100, m_autoscroll,
          last, stream, twin, phase,
          m_historyItems, m_historyItem, config,
          m_port, m_portIndex, ports, openPorts,
          m_file, m_stream, m_timer, running, m_baudRate, m_baudRateIndex>>

----------------------------------------------------------------------------
(* Bounds *)

\* longest document
MaxDoc == 3
\* longest stream of the chunking specification
MaxStream == 5
\* longest document of the whole program
SysDoc == 1
\* most history entries
MaxHistory == 2
\* most valid serial ports
MaxPorts == 1

----------------------------------------------------------------------------
(* Characters *)

ESC == "ESC"
LF == "LF"

Digits == {"0", "1", "2", "3", "4", "5", "6", "7", "8", "9"}
Letters == {"A", "B", "C", "D", "E", "F", "G", "H", "I", "J", "K", "L", "M",
            "N", "O", "P", "Q", "R", "S", "T", "U", "V", "W", "X", "Y", "Z",
            "a", "b", "c", "d", "e", "f", "g", "h", "i", "j", "k", "l", "m",
            "n", "o", "p", "q", "r", "s", "t", "u", "v", "w", "x", "y", "z"}

\* The characters deliveries are made of: one of each class the interpreter
\* tells apart (ESC, line break, the two introducers, the characters of the
\* commands 2J, 2K and H).
Chars == {ESC, LF, "[", "(", "2", "J", "K", "H"}

\* the texts of one to n characters
Texts(n) == UNION {[1..k -> Chars] : k \in 1..n}

\* the control sequences the interpreter recognises, each as one text
ClearScreenSeq == <<ESC, "[", "2", "J">>
CursorHomeSeq == <<ESC, "[", "H">>
ClearLineSeq == <<ESC, "[", "2", "K">>
ControlSeqs == {ClearScreenSeq, CursorHomeSeq, ClearLineSeq}

\* the texts of one delivery: one character, or a whole control sequence
Deliveries == Texts(1) \cup ControlSeqs

\* a command aborted by ESC and followed by another sequence
AbortThenClearSeq == <<ESC, "[", "2", ESC, "[", "2", "J">>
AbortThenJSeq == <<ESC, "[", "2", ESC, "[", "J">>
AbortSeqs == {AbortThenClearSeq, AbortThenJSeq}

VT100_Text == "VT100_Text"
VT100_Escape == "VT100_Escape"
VT100_Command == "VT100_Command"
VT100_ResetFont == "VT100_ResetFont"
VT100_States == {VT100_Text, VT100_Escape, VT100_Command, VT100_ResetFont}

----------------------------------------------------------------------------
(* QPlainTextEdit document operations used by the widget *)

\* position of the last LF of d, 0 if there is none: the start of the last line
StartOfLastLine(d) ==
    IF \E i \in 1..Len(d) : d[i] = LF
    THEN CHOOSE i \in 1..Len(d) : d[i] = LF /\ \A j \in (i+1)..Len(d) : d[j] # LF
    ELSE 0

\* cursor at End, anchor at StartOfLine; removeSelectedText
RemoveLastLineText(d) == SubSeq(d, 1, StartOfLastLine(d))

\* deletePreviousChar of a cursor at the end of d
DeletePreviousChar(d) == IF Len(d) = 0 THEN d ELSE SubSeq(d, 1, Len(d) - 1)

\* the "2K" branch: select the last line, remove it, delete the previous char
ClearLine(d) == DeletePreviousChar(RemoveLastLineText(d))

\* textEdit()->clear()
ClearDocument(d) == <<>>

----------------------------------------------------------------------------
(* TerminalWidget::vt100Processing and addText *)

\* addText(text, false): insert at the end, emit textChanged
AddPlain(p, text) == [p EXCEPT !.doc = @ \o text, !.sig = @ + 1]

\* case VT100_Text, were a line break to discard the pending text
StepText_dropsPending(p, c) ==
    IF c = ESC
    THEN [AddPlain(p, p.text) EXCEPT !.text = <<>>, !.st = VT100_Escape]
    ELSE IF c = LF
    THEN [AddPlain(p, <<LF>>) EXCEPT !.text = <<>>]
    ELSE [p EXCEPT !.text = Append(@, c)]

\* case VT100_Text
StepText(p, c) ==
    IF c = ESC
    THEN [AddPlain(p, p.text) EXCEPT !.text = <<>>, !.st = VT100_Escape]
    ELSE IF c = LF
    THEN [AddPlain(p, Append(p.text, LF)) EXCEPT !.text = <<>>]
    ELSE [p EXCEPT !.text = Append(@, c)]

\* case VT100_Escape, were '(' not to be recognised
StepEscape_bracketOnly(p, c) ==
    LET q == [p EXCEPT !.command = <<>>] IN
    IF c = "[" THEN [q EXCEPT !.st = VT100_Command]
    ELSE q

\* case VT100_Escape, were the token of an aborted command to be kept
StepEscape_keepsToken(p, c) ==
    IF c = "[" THEN [p EXCEPT !.st = VT100_Command]
    ELSE IF c = "(" THEN [p EXCEPT !.st = VT100_ResetFont]
    ELSE p

\* case VT100_Escape
StepEscape(p, c) ==
    LET q == [p EXCEPT !.command = <<>>] IN
    IF c = "[" THEN [q EXCEPT !.st = VT100_Command]
    ELSE IF c = "(" THEN [q EXCEPT !.st = VT100_ResetFont]
    ELSE q

\* case VT100_Command, were "2J" to end the command without clearing
RunCommand_keepsScreen(p) ==
    IF p.command = <<"2", "J">>
    THEN [p EXCEPT !.st = VT100_Text]
    ELSE IF p.command = <<"H">>
    THEN [p EXCEPT !.doc = ClearDocument(@), !.st = VT100_Text,
                   !.clears = @ + 1]
    ELSE IF p.command = <<"2", "K">>
    THEN [p EXCEPT !.doc = ClearLine(@), !.st = VT100_Text]
    ELSE IF Len(p.command) >= 3
    THEN [p EXCEPT !.st = VT100_Text]
    ELSE p

\* case VT100_Command, after command.append(c)
RunCommand(p) ==
    IF p.command = <<"2", "J">>
    THEN [p EXCEPT !.doc = ClearDocument(@), !.st = VT100_Text,
                   !.clears = @ + 1]
    ELSE IF p.command = <<"H">>
    THEN [p EXCEPT !.doc = ClearDocument(@), !.st = VT100_Text,
                   !.clears = @ + 1]
    ELSE IF p.command = <<"2", "K">>
    THEN [p EXCEPT !.doc = ClearLine(@), !.st = VT100_Text]
    ELSE IF Len(p.command) >= 3
    THEN [p EXCEPT !.st = VT100_Text]
    ELSE p

\* case VT100_Command, were every character to be appended to the token
StepCommand_appendsAll(p, c) ==
    IF c = ESC THEN [p EXCEPT !.st = VT100_Escape]
    ELSE RunCommand([p EXCEPT !.command = Append(@, c)])

\* case VT100_Command
StepCommand(p, c) ==
    IF c = ESC THEN [p EXCEPT !.st = VT100_Escape]
    ELSE IF c \notin Digits /\ c \notin Letters THEN [p EXCEPT !.st = VT100_Text]
    ELSE RunCommand([p EXCEPT !.command = Append(@, c)])

\* case VT100_ResetFont
StepResetFont(p, c) == [p EXCEPT !.st = VT100_Text]

\* the body of the loop: switch (m_terminalState)
Step(p, c) ==
    CASE p.st = VT100_Text -> StepText(p, c)
      [] p.st = VT100_Escape -> StepEscape(p, c)
      [] p.st = VT100_Command -> StepCommand(p, c)
      [] p.st = VT100_ResetFont -> StepResetFont(p, c)

RECURSIVE Loop(_, _, _)
Loop(p, data, i) ==
    IF i > Len(data) THEN p ELSE Loop(Step(p, data[i]), data, i + 1)

\* vt100Processing(data) on document d in state st: text and command are
\* locals of the call and start empty; the result holds the returned text
vt100Processing(d, st, data) ==
    Loop([doc |-> d, st |-> st, text |-> <<>>, command |-> <<>>, sig |-> 0,
          clears |-> 0],
         data, 1)

\* addText, were it to interpret the text whatever enableVt100 is
addText_alwaysInterprets(d, st, text, enableVt100) ==
    LET p == vt100Processing(d, st, text)
    IN [doc |-> p.doc \o p.text, st |-> p.st, sig |-> p.sig + 1,
             clears |-> p.clears]

\* addText(text, enableVt100): the document, the interpreter state and the
\* number of textChanged signals after the call
addText(d, st, text, enableVt100) ==
    IF enableVt100
    THEN LET p == vt100Processing(d, st, text)
         IN [doc |-> p.doc \o p.text, st |-> p.st, sig |-> p.sig + 1,
             clears |-> p.clears]
    ELSE [doc |-> d \o text, st |-> st, sig |-> 1, clears |-> 0]

----------------------------------------------------------------------------
(* Operations of the terminal widget *)

\* TerminalWidget::TerminalWidget
InitTerminal ==
    /\ doc = <<>>
    /\ m_terminalState = VT100_Text
    /\ m_emulateVt100 = FALSE
    /\ m_autoscroll = TRUE

\* TerminalWidget::insertText(text)
insertText(text) ==
    LET r == addText(doc, m_terminalState, text, m_emulateVt100) IN
    /\ doc' = r.doc
    /\ m_terminalState' = r.st
    /\ UNCHANGED <<m_emulateVt100, m_autoscroll>>

\* clear(), were it to leave the document as it is
clear_keepsDocument ==
    UNCHANGED <<doc, m_terminalState, m_emulateVt100, m_autoscroll>>

\* clear(), were it to reset the interpreter as well
clear_resetsInterpreter ==
    /\ doc' = ClearDocument(doc)
    /\ m_terminalState' = VT100_Text
    /\ UNCHANGED <<m_emulateVt100, m_autoscroll>>

\* TerminalWidget::clear()
clear ==
    /\ doc' = ClearDocument(doc)
    /\ UNCHANGED <<m_terminalState, m_emulateVt100, m_autoscroll>>

\* the signals of setVt100Emulation(enabled), were it to signal changes only
setVt100EmulationSignals_onChange(enabled) ==
    IF enabled # m_emulateVt100 THEN <<"TerminalWidget::vt100EmulationChanged">>
    ELSE <<>>

\* the signals of setVt100Emulation(enabled): emit vt100EmulationChanged()
setVt100EmulationSignals(enabled) == <<"TerminalWidget::vt100EmulationChanged">>

\* TerminalWidget::setVt100Emulation(enabled)
setVt100Emulation(enabled) ==
    /\ m_emulateVt100' = enabled
    /\ UNCHANGED <<doc, m_terminalState, m_autoscroll>>

----------------------------------------------------------------------------
(* Serial::Console: command history, framing and configuration.  Console.h *)
(* declares them; their behaviour is that of the specification (sections   *)
(* 3, 4.4, 4.5 and 4.6).                                                   *)

CR == "CR"
SP == " "

\* QString::toUtf8 and QString::fromUtf8 on the characters of the model:
\* each character and its byte
Utf8Table == {<<ESC, 27>>, <<LF, 10>>, <<CR, 13>>, <<SP, 32>>, <<"[", 91>>,
              <<"(", 40>>, <<"0", 48>>, <<"1", 49>>, <<"2", 50>>, <<"4", 52>>,
              <<"A", 65>>, <<"H", 72>>, <<"J", 74>>, <<"K", 75>>, <<"a", 97>>,
              <<"g", 103>>, <<"h", 104>>, <<"i", 105>>}
ByteOf(c) == (CHOOSE e \in Utf8Table : e[1] = c)[2]
CharOf(b) == (CHOOSE e \in Utf8Table : e[2] = b)[1]
toUtf8(text) == [i \in 1..Len(text) |-> ByteOf(text[i])]
fromUtf8(bytes) == [i \in 1..Len(bytes) |-> CharOf(bytes[i])]

DataModes == {"DataUTF8", "DataHexadecimal"}
DisplayModes == {"DisplayPlainText", "DisplayHexadecimal"}
LineEndings == {"NoLineEnding", "NewLine", "CarriageReturn",
                "BothNewLineAndCarriageReturn"}

\* Console::Console
InitConsole ==
    /\ m_historyItems = <<>>
    /\ m_historyItem = -1
    /\ config = [dataMode |-> "DataUTF8", displayMode |-> "DisplayPlainText",
                 lineEnding |-> "NoLineEnding", echo |-> FALSE,
                 autoscroll |-> TRUE, showTimestamp |-> FALSE]

\* the bytes of a line ending, were "both" to put the new line first
LineEndingBytes_newLineFirst(le) ==
    CASE le = "NoLineEnding" -> <<>>
      [] le = "NewLine" -> <<10>>
      [] le = "CarriageReturn" -> <<13>>
      [] le = "BothNewLineAndCarriageReturn" -> <<10, 13>>

\* the bytes of a line ending
LineEndingBytes(le) ==
    CASE le = "NoLineEnding" -> <<>>
      [] le = "NewLine" -> <<10>>
      [] le = "CarriageReturn" -> <<13>>
      [] le = "BothNewLineAndCarriageReturn" -> <<13, 10>>

\* value of a hexadecimal digit, upper or lower case
UpperDigits == <<"0", "1", "2", "3", "4", "5", "6", "7", "8", "9",
                 "A", "B", "C", "D", "E", "F">>
LowerDigits == <<"0", "1", "2", "3", "4", "5", "6", "7", "8", "9",
                 "a", "b", "c", "d", "e", "f">>
HexDigits == {UpperDigits[i] : i \in 1..16} \cup {LowerDigits[i] : i \in 1..16}
HexValue(c) ==
    (CHOOSE i \in 1..16 : UpperDigits[i] = c \/ LowerDigits[i] = c) - 1

\* the tokens of text: its maximal runs of characters other than spaces
RECURSIVE Tokens(_)
Tokens(text) ==
    IF text = <<>> THEN <<>>
    ELSE IF Head(text) = SP THEN Tokens(Tail(text))
    ELSE LET n == IF \E i \in 1..Len(text) : text[i] = SP
                  THEN (CHOOSE i \in 1..Len(text) :
                            text[i] = SP /\ \A j \in 1..(i-1) : text[j] # SP) - 1
                  ELSE Len(text)
         IN <<SubSeq(text, 1, n)>> \o Tokens(SubSeq(text, n + 1, Len(text)))

\* Console::hexToBytes(data): every token of two hexadecimal digits is a
\* byte, every other token is skipped
RECURSIVE TokenBytes(_)
TokenBytes(tokens) ==
    IF tokens = <<>> THEN <<>>
    ELSE LET t == Head(tokens) IN
         (IF Len(t) = 2 /\ t[1] \in HexDigits /\ t[2] \in HexDigits
          THEN <<16 * HexValue(t[1]) + HexValue(t[2])>>
          ELSE <<>>) \o TokenBytes(Tail(tokens))
hexToBytes(data) == TokenBytes(Tokens(data))

\* hexadecimalStr(data), were the bytes to follow each other without a space
RECURSIVE hexadecimalStr_noSpace(_)
hexadecimalStr_noSpace(data) ==
    IF data = <<>> THEN <<>>
    ELSE <<UpperDigits[(Head(data) \div 16) + 1], UpperDigits[(Head(data) % 16) + 1]>>
             \o hexadecimalStr_noSpace(Tail(data))

\* Console::hexadecimalStr(data): every byte as two uppercase hexadecimal
\* digits, a single space between two bytes
RECURSIVE hexadecimalStr(_)
hexadecimalStr(data) ==
    IF data = <<>> THEN <<>>
    ELSE <<UpperDigits[(Head(data) \div 16) + 1], UpperDigits[(Head(data) % 16) + 1]>>
             \o (IF Len(data) = 1 THEN <<>> ELSE <<SP>>)
             \o hexadecimalStr(Tail(data))

\* the frame, were the line ending to follow hexadecimal text without a byte
Frame_alwaysEnds(text) ==
    IF config.dataMode = "DataHexadecimal"
    THEN hexToBytes(text) \o LineEndingBytes(config.lineEnding)
    ELSE toUtf8(text) \o LineEndingBytes(config.lineEnding)

\* the bytes send() hands to the transport for text: the encoded text and
\* the line ending; nothing if hexadecimal text holds no byte
Frame(text) ==
    IF config.dataMode = "DataHexadecimal"
    THEN IF hexToBytes(text) = <<>> THEN <<>>
         ELSE hexToBytes(text) \o LineEndingBytes(config.lineEnding)
    ELSE toUtf8(text) \o LineEndingBytes(config.lineEnding)

\* addToHistory(command), were it to leave the cursor where it is
addToHistory_keepsCursor(command) ==
    /\ m_historyItems' = IF command = <<>> THEN m_historyItems
                         ELSE Append(m_historyItems, command)
    /\ m_historyItem' = m_historyItem

\* Console::addToHistory(command)
addToHistory(command) ==
    /\ m_historyItems' = IF command = <<>> THEN m_historyItems
                         ELSE Append(m_historyItems, command)
    /\ m_historyItem' = -1

\* historyUp(), were it to wrap around from the oldest entry to the newest
historyUp_wraps ==
    /\ m_historyItem' = IF m_historyItems = <<>> THEN m_historyItem
                        ELSE IF m_historyItem > 0 THEN m_historyItem - 1
                        ELSE Len(m_historyItems) - 1
    /\ UNCHANGED <<m_historyItems, config>>

\* historyUp(), were it to stop browsing past the oldest entry
historyUp_stopsBrowsing ==
    /\ m_historyItem' = IF m_historyItems = <<>> THEN m_historyItem
                        ELSE IF m_historyItem = -1 THEN Len(m_historyItems) - 1
                        ELSE m_historyItem - 1
    /\ UNCHANGED <<m_historyItems, config>>

\* Console::historyUp()
historyUp ==
    /\ m_historyItem' = IF m_historyItems = <<>> THEN m_historyItem
                        ELSE IF m_historyItem = -1 THEN Len(m_historyItems) - 1
                        ELSE IF m_historyItem > 0 THEN m_historyItem - 1
                        ELSE 0
    /\ UNCHANGED <<m_historyItems, config>>

\* historyDown(), were it to drop the newest entry when browsing ends
historyDown_forgets ==
    /\ m_historyItem' = IF m_historyItem = -1 THEN -1
                        ELSE IF m_historyItem < Len(m_historyItems) - 1
                        THEN m_historyItem + 1
                        ELSE -1
    /\ m_historyItems' = IF m_historyItem = Len(m_historyItems) - 1 /\ m_historyItem >= 0
                         THEN SubSeq(m_historyItems, 1, Len(m_historyItems) - 1)
                         ELSE m_historyItems
    /\ UNCHANGED config

\* historyDown(), were it to stay at the newest entry
historyDown_staysAtNewest ==
    /\ m_historyItem' = IF m_historyItem = -1 THEN -1
                        ELSE IF m_historyItem < Len(m_historyItems) - 1
                        THEN m_historyItem + 1
                        ELSE m_historyItem
    /\ UNCHANGED <<m_historyItems, config>>

\* Console::historyDown()
historyDown ==
    /\ m_historyItem' = IF m_historyItem = -1 THEN -1
                        ELSE IF m_historyItem < Len(m_historyItems) - 1
                        THEN m_historyItem + 1
                        ELSE -1
    /\ UNCHANGED <<m_historyItems, config>>

\* Console::currentHistoryString(): the recalled entry, empty when none
currentHistoryString ==
    IF m_historyItem >= 0 /\ m_historyItem < Len(m_historyItems)
    THEN m_historyItems[m_historyItem + 1]
    ELSE <<>>

\* Console::setEcho(enabled)
setEcho(enabled) ==
    /\ config' = [config EXCEPT !.echo = enabled]
    /\ UNCHANGED <<m_historyItems, m_historyItem>>

\* Console::setLineEnding(mode)
setLineEnding(mode) ==
    /\ config' = [config EXCEPT !.lineEnding = mode]
    /\ UNCHANGED <<m_historyItems, m_historyItem>>

\* Console::setDataMode(mode)
setDataMode(mode) ==
    /\ config' = [config EXCEPT !.dataMode = mode]
    /\ UNCHANGED <<m_historyItems, m_historyItem>>

\* Console::setDisplayMode(mode)
setDisplayMode(mode) ==
    /\ config' = [config EXCEPT !.displayMode = mode]
    /\ UNCHANGED <<m_historyItems, m_historyItem>>

\* Console::setShowTimestamp(enabled)
setShowTimestamp(enabled) ==
    /\ config' = [config EXCEPT !.showTimestamp = enabled]
    /\ UNCHANGED <<m_historyItems, m_historyItem>>

\* Console::setAutoscroll(enabled)
Console_setAutoscroll(enabled) ==
    /\ config' = [config EXCEPT !.autoscroll = enabled]
    /\ UNCHANGED <<m_historyItems, m_historyItem>>

\* the signal each setter of the console emits, once and whatever the value
ConsoleSignal(setter) ==
    CASE setter = "setEcho" -> "Console::echoChanged"
      [] setter = "setDataMode" -> "Console::dataModeChanged"
      [] setter = "setDisplayMode" -> "Console::displayModeChanged"
      [] setter = "setLineEnding" -> "Console::lineEndingChanged"
      [] setter = "setShowTimestamp" -> "Console::showTimestampChanged"
      [] setter = "Console::setAutoscroll" -> "Console::autoscrollChanged"
ConsoleSetterSignals(setter) == <<ConsoleSignal(setter)>>

----------------------------------------------------------------------------
(* Serial::Manager *)

\* Manager::connected()
connected == m_port = "open"

\* Manager::Manager
InitManager ==
    /\ m_port = "null"
    /\ m_portIndex = 0
    /\ openPorts = 0
    /\ m_baudRate = 9600
    /\ m_baudRateIndex = 3

\* disconnectDevice(), were it to keep the port handle
disconnectDevice_keepsPort ==
    UNCHANGED <<m_port, m_portIndex, ports, openPorts>>

\* port()->close(), were it to leave the port open
PortsAfterClose_leaks == openPorts

\* the open QSerialPort objects after port()->close() of disconnectDevice()
PortsAfterClose == IF m_port = "open" THEN openPorts - 1 ELSE openPorts

\* Manager::disconnectDevice()
disconnectDevice ==
    /\ m_port' = "null"
    /\ openPorts' = PortsAfterClose
    /\ UNCHANGED <<m_portIndex, ports>>

\* what port()->open() of connectDevice() leaves in m_port: the handle open,
\* the handle closed, or no handle when the port signals the error of a
\* failed open to handleError, connected before (337-338), which disconnects
OpenOutcomes == {"open", "closed", "null"}

\* connectDevice() creates a port handle: the index addresses a valid port
ValidPortIndex == m_portIndex - 1 >= 0 /\ m_portIndex - 1 < ports

\* Manager::configurationOk()
configurationOk == m_portIndex > 0

\* connectDevice(), were it not to compare the index with the list of ports
connectDevice_ignoresList ==
    LET portId == m_portIndex - 1 IN
    IF portId >= 0
    THEN /\ m_portIndex' = portId + 1
         /\ \E outcome \in OpenOutcomes :
                /\ m_port' = outcome
                /\ openPorts' = PortsAfterClose
                                  + (IF outcome = "open" THEN 1 ELSE 0)
         /\ UNCHANGED ports
    ELSE disconnectDevice

\* Manager::connectDevice(); open() succeeds or fails
connectDevice ==
    LET portId == m_portIndex - 1 IN
    IF portId >= 0 /\ portId < ports
    THEN /\ m_portIndex' = portId + 1
         /\ \E outcome \in OpenOutcomes :
                /\ m_port' = outcome
                /\ openPorts' = PortsAfterClose
                                  + (IF outcome = "open" THEN 1 ELSE 0)
         /\ UNCHANGED ports
    ELSE disconnectDevice

\* toggleConnection(), were it to connect whatever the connection
toggleConnection_reconnects == connectDevice

\* Manager::toggleConnection()
toggleConnection == IF connected THEN disconnectDevice ELSE connectDevice

\* Manager::setPortIndex(portIndex)
setPortIndex(portIndex) ==
    LET portId == portIndex - 1 IN
    /\ m_portIndex' = IF portId >= 0 /\ portId < ports THEN portIndex ELSE 0
    /\ UNCHANGED <<m_port, ports, openPorts>>

\* Manager::baudRateList()
baudRateList == <<1200, 2400, 4800, 9600, 19200, 38400, 57600, 115200>>

\* what baudRateList().at(index).toInt() gives for index beyond the list
GarbageRates == {0, 11}

\* Manager::setBaudRateIndex(index) and the setBaudRate(rate) it calls;
\* QList::at beyond the list is undefined: the process aborts (at an
\* assertion of at() or of setBaudRate) or goes on with some rate
setBaudRateIndex(index) ==
    IF index >= 0 /\ index <= Len(baudRateList)
    THEN /\ m_baudRateIndex' = index
         /\ IF index < Len(baudRateList)
            THEN m_baudRate' = baudRateList[index + 1] /\ UNCHANGED running
            ELSE \/ running' = FALSE /\ UNCHANGED m_baudRate
                 \/ m_baudRate' \in GarbageRates /\ UNCHANGED running
    ELSE UNCHANGED <<baudVars, running>>

\* Manager::onDataReceived(), the port holding data, and the display of the
\* data by the slots of dataReceived; without a handle port()->readAll()
\* is called on a null pointer, which is undefined: the process aborts or
\* goes on with whatever it reads (got)
onDataReceived(data, got) ==
    IF m_port = "null"
    THEN /\ disconnectDevice
         /\ \/ running' = FALSE /\ UNCHANGED termVars
            \/ UNCHANGED running /\ insertText(fromUtf8(got))
    ELSE /\ insertText(fromUtf8(IF m_port = "open" THEN data ELSE <<>>))
         /\ UNCHANGED <<managerVars, running>>

\* the signals of onDataReceived()
onDataReceivedSignals == <<"Manager::dataReceived", "Manager::rx">>

\* Manager::writeData(data): the values it can return
WriteResults(data) == IF connected THEN {-1} \cup 0..Len(data) ELSE {-1}

\* Manager::writeData(data) when no port is open, were it to try the write
PortWrites_whenClosed == IF connected THEN 1 ELSE 1

\* the port()->write(data) calls of one writeData(data)
PortWrites == IF connected THEN 1 ELSE 0

\* the signals of writeData(data) returning bytes
writeDataSignals(bytes) ==
    IF connected /\ bytes > 0 THEN <<"Manager::tx", "Manager::dataSent">>
    ELSE <<>>

\* writeData, were dataSent to carry all of data whatever was written
writeData_sendsAll(data, bytes) ==
    IF bytes > 0 /\ config.echo
    THEN insertText(fromUtf8(data))
    ELSE UNCHANGED termVars

\* Manager::writeData(data) returning bytes, with the slot of dataSent,
\* Console::onDataSent: the written bytes are displayed if echo is enabled
writeData(data, bytes) ==
    IF bytes > 0 /\ config.echo
    THEN insertText(fromUtf8(SubSeq(data, 1, bytes)))
    ELSE UNCHANGED termVars

\* send(data) requests a write: data is not empty and its frame neither
Writes(data) == data # <<>> /\ Frame(data) # <<>>

\* what the write of send(data) can return; -1 also when none is requested
SendResults(data) == IF Writes(data) THEN WriteResults(Frame(data)) ELSE {-1}

\* Console::send(data), the transport returning bytes
send(data, bytes) ==
    IF data = <<>>
    THEN UNCHANGED <<termVars, consoleVars>>
    ELSE /\ addToHistory(data)
         /\ IF Writes(data) THEN writeData(Frame(data), bytes)
            ELSE UNCHANGED termVars
         /\ UNCHANGED config

\* the signals of TerminalWidget::setAutoscroll(enabled): those of
\* Console::setAutoscroll, then emit autoscrollChanged()
setAutoscrollSignals(enabled) ==
    ConsoleSetterSignals("Console::setAutoscroll")
        \o <<"TerminalWidget::autoscrollChanged">>

\* TerminalWidget::setAutoscroll(enabled)
setAutoscroll(enabled) ==
    /\ m_autoscroll' = enabled
    /\ config' = [config EXCEPT !.autoscroll = enabled]
    /\ UNCHANGED <<doc, m_terminalState, m_emulateVt100, m_historyItems,
                   m_historyItem>>

----------------------------------------------------------------------------
(* Serial::FileTransmission.  A file is the sequence of its lines, each    *)
(* ending with a line break; the text stream reads a line from the file    *)
(* when sendLine() asks for it and its position is the number of lines it  *)
(* has read.  The percentage is computed in integers; the code computes it *)
(* in floating point and truncates.                                        *)

\* most lines of a file
MaxLines == 2

\* the lines of the files and the files
Lines == {<<>>, <<"h">>}
Files == UNION {[1..n -> Lines] : n \in 0..MaxLines}

NoFile == [open |-> FALSE, lines |-> <<>>]
NoStream == [state |-> "null", pos |-> 0]

\* FileTransmission::FileTransmission; Manager::closed, the only signal it
\* connects to stopTransmission(), is emitted nowhere
InitFileTransmission ==
    /\ m_file = NoFile
    /\ m_stream = NoStream
    /\ m_timer = FALSE
    /\ running = TRUE

\* FileTransmission::active()
active == m_timer

\* FileTransmission::fileOpen()
fileOpen == m_file.open /\ connected

\* the bytes of the first n lines
RECURSIVE BytesOf(_, _)
BytesOf(lines, n) ==
    IF n = 0 THEN 0 ELSE BytesOf(lines, n - 1) + Len(lines[n]) + 1

\* m_file.size() and m_stream->pos()
FileSize == BytesOf(m_file.lines, Len(m_file.lines))
StreamPos == BytesOf(m_file.lines, m_stream.pos)

\* transmissionProgress(), were it not to look at the connection
transmissionProgress_ignoresConnection ==
    IF ~m_file.open \/ FileSize <= 0 \/ m_stream.state = "null" THEN 0
    ELSE IF StreamPos >= FileSize THEN 100
    ELSE (100 * StreamPos) \div FileSize

\* FileTransmission::transmissionProgress()
transmissionProgress ==
    IF ~fileOpen \/ FileSize <= 0 \/ m_stream.state = "null" THEN 0
    ELSE IF StreamPos >= FileSize THEN 100
    ELSE (100 * StreamPos) \div FileSize

\* FileTransmission::stopTransmission()
stopTransmission == m_timer' = FALSE

\* delete m_stream: the pointer keeps its value; deleting a deleted stream
\* is undefined, the process goes on or aborts
DeletedStream ==
    IF m_stream.state = "null" THEN m_stream
    ELSE [m_stream EXCEPT !.state = "deleted"]
AfterDelete == IF m_stream.state = "deleted" THEN BOOLEAN ELSE {TRUE}

\* FileTransmission::closeFile()
closeFile ==
    /\ stopTransmission
    /\ m_file' = NoFile
    /\ m_stream' = DeletedStream
    /\ running' \in AfterDelete

\* FileTransmission::openFile(), the user selecting file (or cancelling the
\* dialog) and QFile::open returning ok; QFile::setFileName closes a file
\* left open
openFile(selected, file, ok) ==
    IF ~selected THEN UNCHANGED fileVars
    ELSE /\ m_timer' = IF fileOpen THEN FALSE ELSE m_timer
         /\ running' \in IF fileOpen THEN AfterDelete ELSE {TRUE}
         /\ IF ok
            THEN /\ m_file' = [open |-> TRUE, lines |-> file]
                 /\ m_stream' = [state |-> "live", pos |-> 0]
            ELSE /\ m_file' = NoFile
                 /\ m_stream' = IF fileOpen THEN DeletedStream ELSE m_stream

\* beginTransmission(), were it to resume at every position
beginTransmission_neverRewinds ==
    IF connected
    THEN /\ m_timer' = TRUE
         /\ UNCHANGED <<m_file, m_stream, running>>
    ELSE stopTransmission /\ UNCHANGED <<m_file, m_stream, running>>

\* FileTransmission::beginTransmission()
beginTransmission ==
    IF connected
    THEN /\ m_stream' = IF transmissionProgress = 100
                        THEN [m_stream EXCEPT !.pos = 0]
                        ELSE m_stream
         /\ m_timer' = TRUE
         /\ UNCHANGED <<m_file, running>>
    ELSE stopTransmission /\ UNCHANGED <<m_file, m_stream, running>>

\* m_stream->atEnd() and the line m_stream->readLine() returns
atEnd == ~m_file.open \/ m_stream.pos >= Len(m_file.lines)
NextLine == m_file.lines[m_stream.pos + 1]

\* sendLine() reads a line
ReadsLine == active /\ connected /\ m_stream.state = "live" /\ ~atEnd

\* sendLine() hands a line to writeData, and the bytes of that line
SendsLine == ReadsLine /\ NextLine # <<>>
LineBytes == IF SendsLine THEN toUtf8(NextLine \o <<LF>>) ELSE <<>>

\* what the write of sendLine() can return; -1 also when none is requested
SendLineResults == IF SendsLine THEN WriteResults(LineBytes) ELSE {-1}

\* sendLine(), were a tick without a connected device to read a line
sendLine_readsDisconnected(bytes) ==
    IF ~active THEN UNCHANGED <<fileVars, termVars>>
    ELSE IF m_stream.state # "live"
    THEN /\ \/ running' = FALSE /\ UNCHANGED m_timer
            \/ stopTransmission /\ UNCHANGED running
         /\ UNCHANGED <<m_file, m_stream, termVars>>
    ELSE IF ~atEnd
    THEN /\ m_stream' = [m_stream EXCEPT !.pos = @ + 1]
         /\ IF NextLine # <<>> /\ connected THEN writeData(LineBytes, bytes)
            ELSE UNCHANGED termVars
         /\ UNCHANGED <<m_file, m_timer, running>>
    ELSE stopTransmission /\ UNCHANGED <<m_file, m_stream, running, termVars>>

\* sendLine(), were it to go on at the end of the file
sendLine_neverStops(bytes) ==
    IF ~active \/ ~connected THEN UNCHANGED <<fileVars, termVars>>
    ELSE IF m_stream.state # "live"
    THEN /\ \/ running' = FALSE /\ UNCHANGED m_timer
            \/ stopTransmission /\ UNCHANGED running
         /\ UNCHANGED <<m_file, m_stream, termVars>>
    ELSE IF ~atEnd
    THEN /\ m_stream' = [m_stream EXCEPT !.pos = @ + 1]
         /\ IF NextLine # <<>> THEN writeData(LineBytes, bytes)
            ELSE UNCHANGED termVars
         /\ UNCHANGED <<m_file, m_timer, running>>
    ELSE UNCHANGED <<fileVars, termVars>>

\* FileTransmission::sendLine(), the transport returning bytes; using a null
\* or deleted stream is undefined, the process aborts or finds the end
sendLine(bytes) ==
    IF ~active \/ ~connected THEN UNCHANGED <<fileVars, termVars>>
    ELSE IF m_stream.state # "live"
    THEN /\ \/ running' = FALSE /\ UNCHANGED m_timer
            \/ stopTransmission /\ UNCHANGED running
         /\ UNCHANGED <<m_file, m_stream, termVars>>
    ELSE IF ~atEnd
    THEN /\ m_stream' = [m_stream EXCEPT !.pos = @ + 1]
         /\ IF NextLine # <<>> THEN writeData(LineBytes, bytes)
            ELSE UNCHANGED termVars
         /\ UNCHANGED <<m_file, m_timer, running>>
    ELSE stopTransmission /\ UNCHANGED <<m_file, m_stream, running, termVars>>

\* Manager::handleError(error): an error of the port disconnects the device
handleError(error) ==
    IF error # "NoError" THEN disconnectDevice ELSE UNCHANGED managerVars

----------------------------------------------------------------------------
(* History variables *)

NoOp == [op |-> "init", arg |-> <<>>, preDoc |-> <<>>, preState |-> VT100_Text,
         prePort |-> "null", textChanged |-> 0, preItem |-> -1,
         wrote |-> FALSE, sent |-> <<>>, written |-> -1, ups |-> 0,
         signals |-> <<>>, same |-> FALSE, clears |-> 0,
         portWrites |-> 0, txSignals |-> <<>>, preStream |-> NoStream,
         preTimer |-> FALSE, preProgress |-> 0, preFile |-> NoFile,
         created |-> 0, released |-> 0, portReads |-> 0]

\* textChanged signals emitted by insertText(text), clear() and the others
Emitted(op, arg) ==
    IF op = "insertText"
    THEN addText(doc, m_terminalState, arg, m_emulateVt100).sig
    ELSE IF op = "clear" THEN 1 ELSE 0

\* textEdit()->clear() calls made by insertText(text), clear() and the others
Cleared(op, arg) ==
    IF op = "insertText"
    THEN addText(doc, m_terminalState, arg, m_emulateVt100).clears
    ELSE IF op = "clear" THEN 1 ELSE 0

\* record the operation, its argument, the widget and the port handle before
\* it and its signals
Rec(op, arg) ==
    [op |-> op, arg |-> arg, preDoc |-> doc, preState |-> m_terminalState,
     prePort |-> m_port, textChanged |-> Emitted(op, arg),
     preItem |-> m_historyItem, wrote |-> FALSE, sent |-> <<>>, written |-> -1,
     ups |-> 0, signals |-> <<>>, same |-> FALSE, clears |-> Cleared(op, arg),
     portWrites |-> 0, txSignals |-> <<>>, preStream |-> m_stream,
     preTimer |-> m_timer, preProgress |-> transmissionProgress,
     preFile |-> m_file, created |-> 0, released |-> 0, portReads |-> 0]
Record(op, arg) == last' = Rec(op, arg)

\* the port handles an operation of the manager creates (new QSerialPort,
\* Manager.cpp:322) and releases (port()->deleteLater(), Manager.cpp:369, in
\* disconnectDevice(); a failed open whose error reaches handleError
\* releases the new handle too)
HandlesCreated(op, arg) ==
    CASE op = "connectDevice" -> IF ValidPortIndex THEN 1 ELSE 0
      [] op = "toggleConnection" -> IF ~connected /\ ValidPortIndex THEN 1 ELSE 0
      [] OTHER -> 0
ReleasedByDisconnect == IF m_port # "null" THEN 1 ELSE 0
ReleasedByConnect ==
    ReleasedByDisconnect + (IF ValidPortIndex /\ m_port' = "null" THEN 1 ELSE 0)
HandlesReleased(op, arg) ==
    CASE op = "disconnectDevice" -> ReleasedByDisconnect
      [] op = "connectDevice" -> ReleasedByConnect
      [] op = "toggleConnection" ->
             IF connected THEN ReleasedByDisconnect ELSE ReleasedByConnect
      [] op = "handleError" ->
             IF arg # <<"NoError">> THEN ReleasedByDisconnect ELSE 0
      [] OTHER -> 0

\* record an operation of the manager and the handles it created and released
RecordHandles(op, arg) ==
    last' = [Rec(op, arg) EXCEPT !.created = HandlesCreated(op, arg),
                                 !.released = HandlesReleased(op, arg)]

\* record a setter, its value, whether that is the value current before the
\* call, and the change signals it emitted
RecordSetter(op, value, current, signals) ==
    last' = [Rec(op, <<value>>) EXCEPT !.signals = signals,
                                       !.same = (value = current)]

\* record historyUp() and how many historyUp() calls in a row it ends, the
\* first of them made while not browsing (0 if the calls began otherwise);
\* counted up to one more than can matter
RecordUp ==
    last' = [Rec("historyUp", <<>>) EXCEPT !.ups =
                IF m_historyItem = -1 THEN 1
                ELSE IF last.op = "historyUp" /\ last.ups > 0
                THEN (IF last.ups < MaxHistory + 2 THEN last.ups + 1 ELSE last.ups)
                ELSE 0]

\* record send(data): whether it requested a write, the bytes it handed to
\* the transport and the number the transport returned
RecordSend(data, bytes) ==
    last' = [Rec("send", data) EXCEPT !.wrote = Writes(data),
                                      !.sent = IF Writes(data) THEN Frame(data) ELSE <<>>,
                                      !.written = bytes,
                                      !.portWrites = IF Writes(data) THEN PortWrites ELSE 0,
                                      !.txSignals = IF Writes(data) THEN writeDataSignals(bytes) ELSE <<>>]

\* record sendLine(): whether it handed a line to writeData, the bytes of the
\* line and the number the transport returned
RecordSendLine(bytes) ==
    last' = [Rec("sendLine", <<>>) EXCEPT !.wrote = SendsLine,
                                          !.sent = LineBytes,
                                          !.written = bytes,
                                          !.portWrites = IF SendsLine THEN PortWrites ELSE 0,
                                          !.txSignals = IF SendsLine THEN writeDataSignals(bytes) ELSE <<>>]

\* the second run: its history hist, its document and interpreter state,
\* and of the first run at its clear() the interpreter state (other0) and
\* whether its document held text (cleared)
NoTwin == [hist |-> <<>>, doc |-> <<>>, st |-> VT100_Text,
           other0 |-> VT100_Text, cleared |-> FALSE]

InitHistory ==
    /\ last = NoOp
    /\ stream = <<>>
    /\ twin = NoTwin
    /\ phase = "history"

----------------------------------------------------------------------------
(* The terminal widget alone: deliveries, clear() and the VT-100 switch *)

InitTerm == InitTerminal /\ InitHistory /\ InitConsole /\ InitManager /\ InitFileTransmission /\ ports = 0

TermInsert ==
    \E text \in Deliveries :
        /\ insertText(text)
        /\ Len(doc') <= MaxDoc
        /\ Record("insertText", text)
        /\ UNCHANGED <<stream, twin, phase, consoleVars, managerVars, fileVars, baudVars>>

TermClear == clear /\ Record("clear", <<>>) /\ UNCHANGED <<stream, twin, phase, consoleVars, managerVars, fileVars, baudVars>>

TermSetVt100 ==
    \E b \in BOOLEAN :
        /\ setVt100Emulation(b)
        /\ Record("setVt100Emulation", <<>>)
        /\ UNCHANGED <<stream, twin, phase, consoleVars, managerVars, fileVars, baudVars>>

\* a delivery with an aborted command
TermInsertAbort ==
    \E text \in AbortSeqs :
        /\ insertText(text)
        /\ Len(doc') <= MaxDoc
        /\ Record("insertText", text)
        /\ UNCHANGED <<stream, twin, phase, consoleVars, managerVars, fileVars, baudVars>>

NextTerm == TermInsert \/ TermClear \/ TermSetVt100 \/ TermInsertAbort

SpecTerm == InitTerm /\ [][NextTerm]_vars

----------------------------------------------------------------------------
(* Chunked delivery: VT-100 emulation is on (setVt100Emulation(true) after  *)
(* construction) and one stream of characters arrives in chunks of any     *)
(* length; stream is their concatenation.                                    *)

InitChunks ==
    /\ doc = <<>>
    /\ m_terminalState = VT100_Text
    /\ m_emulateVt100 = TRUE
    /\ m_autoscroll = TRUE
    /\ InitHistory
    /\ InitConsole
    /\ InitManager
    /\ InitFileTransmission
    /\ ports = 0

Deliver ==
    \E text \in Texts(MaxStream - Len(stream)) :
        /\ insertText(text)
        /\ Record("insertText", text)
        /\ stream' = stream \o text
        /\ UNCHANGED <<twin, phase, consoleVars, managerVars, fileVars, baudVars>>

NextChunks == Deliver

SpecChunks == InitChunks /\ [][NextChunks]_vars

----------------------------------------------------------------------------
(* Properties of chunked delivery *)

HasEsc(s) == \E i \in 1..Len(s) : s[i] = ESC
HasLF(s) == \E i \in 1..Len(s) : s[i] = LF
IsAlnum(c) == c \in Digits \/ c \in Letters

\* C1: however the stream was split into deliveries, the document and the
\* interpreter state are those of delivering the whole stream in one call.
C1_ChunkingInvisible ==
    LET whole == addText(<<>>, VT100_Text, stream, TRUE) IN
    /\ doc = whole.doc
    /\ m_terminalState = whole.st

\* s ends with ESC [ and three alphanumeric characters whose prefixes are
\* none of the commands H, 2J and 2K, and holds no other ESC
EndsWithLongToken(s) ==
    /\ Len(s) >= 5
    /\ LET n == Len(s) IN
       /\ s[n-4] = ESC
       /\ s[n-3] = "["
       /\ \A i \in (n-2)..n : IsAlnum(s[i])
       /\ <<s[n-2]>> # <<"H">>
       /\ <<s[n-2], s[n-1]>> \notin {<<"2", "J">>, <<"2", "K">>}
       /\ ~HasEsc(SubSeq(s, 1, n-5))

\* C5: once three alphanumeric characters have arrived since '[' without
\* forming a command, the interpreter is in PlainText, however the
\* characters were distributed over deliveries.
C5_LongTokenEndsCommand ==
    EndsWithLongToken(stream) => m_terminalState = VT100_Text

\* C6: a stream without ESC is displayed whole and in order: the document is
\* the concatenation of the deliveries, and the interpreter stays in
\* PlainText.
C6_PlainStreamDisplayed ==
    ~HasEsc(stream) => doc = stream /\ m_terminalState = VT100_Text

\* several deliveries with line breaks within and between them
C6_Witness ==
    /\ ~HasEsc(stream)
    /\ Len(stream) = MaxStream
    /\ Len(last.arg) = 2
    /\ last.arg[1] = LF
    /\ HasLF(last.preDoc)
    /\ last.preDoc[1] # LF
    /\ doc = stream

----------------------------------------------------------------------------
(* Properties of single deliveries to the widget *)

\* the last operation was insertText with VT-100 emulation enabled / disabled
InsertedVt100 == last.op = "insertText" /\ m_emulateVt100
InsertedPlain == last.op = "insertText" /\ ~m_emulateVt100

\* number of finalized lines of d: its line breaks
LineBreaks(d) == Cardinality({i \in 1..Len(d) : d[i] = LF})

\* C2: ESC [ 2 J delivered in one call in PlainText empties the document,
\* whatever it held, appends none of the four characters and leaves the
\* interpreter in PlainText.
C2_ClearScreenInOneCall ==
    (InsertedVt100 /\ last.arg = ClearScreenSeq /\ last.preState = VT100_Text)
        => doc = <<>> /\ m_terminalState = VT100_Text

C2_Witness ==
    /\ InsertedVt100
    /\ last.arg = ClearScreenSeq
    /\ last.preState = VT100_Text
    /\ Len(last.preDoc) = MaxDoc
    /\ HasLF(last.preDoc)
    /\ doc = <<>>

\* C4: in EscapeSeen every character other than '[' and '(' moves the
\* interpreter back to PlainText.
C4_EscapeFallsBack ==
    (/\ InsertedVt100
     /\ last.preState = VT100_Escape
     /\ Len(last.arg) = 1
     /\ last.arg[1] \notin {"[", "("})
        => m_terminalState = VT100_Text

\* C7: with VT-100 emulation disabled a delivery is appended as it is, ESC,
\* '[' and command letters included; nothing is cleared, the interpreter
\* state stays and textChanged is raised once.
C7_DisabledAppendsAll ==
    InsertedPlain =>
        /\ doc = last.preDoc \o last.arg
        /\ m_terminalState = last.preState
        /\ last.textChanged = 1

\* a whole control sequence appended as text while the interpreter, left in
\* the middle of a sequence, stays there
C7_Witness ==
    /\ InsertedPlain
    /\ last.arg = CursorHomeSeq
    /\ last.preState = VT100_Command
    /\ doc = CursorHomeSeq

\* C8: ClearLine removes only the text of the in-progress last line: what
\* precedes it, the line break before it included, stays, and the number of
\* finalized lines does not decrease.
C8_ClearLineKeepsEarlierLines ==
    (InsertedVt100 /\ last.arg = ClearLineSeq /\ last.preState = VT100_Text)
        => /\ doc = RemoveLastLineText(last.preDoc)
           /\ LineBreaks(doc) >= LineBreaks(last.preDoc)

\* C11: one insertText call raises textChanged exactly once, whatever the
\* delivered text holds, with VT-100 emulation enabled or disabled.
C11_OneNotificationPerDelivery ==
    last.op = "insertText" => last.textChanged = 1

----------------------------------------------------------------------------
(* Two runs with VT-100 emulation on.  The first run receives any           *)
(* deliveries, then clear(); the second run receives one of TwinHistories   *)
(* in one call, then clear().  After that both runs receive the same        *)
(* deliveries.                                                              *)

TwinHistories == {<<>>, <<ESC>>, <<ESC, "[">>, <<ESC, "(">>}

\* the interpreter state of the second run at its clear()
TwinStateAtClear(h) == addText(<<>>, VT100_Text, h, TRUE).st

\* the second run after its history h and its clear()
TwinAfter(h) ==
    [hist |-> h, doc |-> ClearDocument(addText(<<>>, VT100_Text, h, TRUE).doc),
     st |-> TwinStateAtClear(h), other0 |-> VT100_Text, cleared |-> FALSE]

InitReplay ==
    /\ doc = <<>>
    /\ m_terminalState = VT100_Text
    /\ m_emulateVt100 = TRUE
    /\ m_autoscroll = TRUE
    /\ last = NoOp
    /\ stream = <<>>
    /\ phase = "history"
    /\ twin = NoTwin
    /\ InitConsole
    /\ InitManager
    /\ InitFileTransmission
    /\ ports = 0

ReplayHistory ==
    /\ phase = "history"
    /\ \E text \in Deliveries :
        /\ insertText(text)
        /\ Len(doc') <= MaxDoc
        /\ UNCHANGED <<last, stream, twin, phase, consoleVars, managerVars, fileVars, baudVars>>

ReplayClear ==
    /\ phase = "history"
    /\ clear
    /\ \E h \in TwinHistories :
        twin' = [TwinAfter(h) EXCEPT !.other0 = m_terminalState,
                                     !.cleared = (doc # <<>>)]
    /\ phase' = "replay"
    /\ UNCHANGED <<last, stream, consoleVars, managerVars, fileVars, baudVars>>

\* the same delivery to both runs; the comparison ends at the first
\* difference between the documents
ReplayDeliver ==
    /\ phase = "replay"
    /\ doc = twin.doc
    /\ \E text \in Deliveries :
        LET r == addText(twin.doc, twin.st, text, TRUE) IN
        /\ insertText(text)
        /\ Len(doc') <= MaxDoc
        /\ Len(r.doc) <= MaxDoc
        /\ twin' = [twin EXCEPT !.doc = r.doc, !.st = r.st]
        /\ UNCHANGED <<last, stream, phase, consoleVars, managerVars, fileVars, baudVars>>

NextReplay == ReplayHistory \/ ReplayClear \/ ReplayDeliver

SpecReplay == InitReplay /\ [][NextReplay]_vars

\* C3 as stated: whatever the two histories before clear(), the same
\* deliveries after it yield the same document.
C3_DocumentFunctionOfReplay == phase = "replay" => doc = twin.doc

\* C3 amended: two histories that leave the interpreter in the same state at
\* clear() yield, for the same deliveries after it, the same document (and
\* interpreter state).
C3_SameStateSameDocument ==
    (phase = "replay" /\ TwinStateAtClear(twin.hist) = twin.other0)
        => doc = twin.doc /\ m_terminalState = twin.st

\* two different histories (one left text to clear, the other none), both
\* ending inside a command; text displayed after the replay
C3_Witness ==
    /\ phase = "replay"
    /\ twin.hist = <<ESC, "[">>
    /\ twin.other0 = VT100_Command
    /\ twin.cleared
    /\ Len(doc) >= 2
    /\ doc = twin.doc

----------------------------------------------------------------------------
(* The whole program: widget, console and manager.  Texts arrive through   *)
(* Console::stringReceived, the user sends commands, browses the history,  *)
(* changes settings and connects; ports come and go.                       *)

\* the characters of the texts and commands of the whole program
SysChars == {ESC, "[", "2"}
SysTexts == {<<c>> : c \in SysChars}
Commands == {<<"2">>}

Init ==
    /\ InitTerminal
    /\ InitHistory
    /\ InitConsole
    /\ InitManager
    /\ InitFileTransmission
    /\ ports \in 0..MaxPorts

Keep == UNCHANGED <<stream, twin, phase, fileVars, baudVars>>

StringReceived ==
    \E text \in SysTexts :
        /\ insertText(text)
        /\ Len(doc') <= SysDoc
        /\ Record("insertText", text)
        /\ Keep /\ UNCHANGED <<consoleVars, managerVars>>

Clear ==
    /\ clear
    /\ Record("clear", <<>>)
    /\ Keep /\ UNCHANGED <<consoleVars, managerVars>>

SetVt100Emulation ==
    \E b \in BOOLEAN :
        /\ setVt100Emulation(b)
        /\ Record("setVt100Emulation", <<>>)
        /\ Keep /\ UNCHANGED <<consoleVars, managerVars>>

SetAutoscroll ==
    \E b \in BOOLEAN :
        /\ setAutoscroll(b)
        /\ Record("setAutoscroll", <<>>)
        /\ Keep /\ UNCHANGED managerVars

Send ==
    \E data \in Commands \cup {<<>>} :
      \E bytes \in SendResults(data) :
        /\ Len(m_historyItems) < MaxHistory
        /\ send(data, bytes)
        /\ Len(doc') <= SysDoc
        /\ RecordSend(data, bytes)
        /\ Keep /\ UNCHANGED managerVars

HistoryUp ==
    /\ historyUp
    /\ Record("historyUp", <<>>)
    /\ Keep /\ UNCHANGED <<termVars, managerVars>>

HistoryDown ==
    /\ historyDown
    /\ Record("historyDown", <<>>)
    /\ Keep /\ UNCHANGED <<termVars, managerVars>>

SetEcho ==
    \E b \in BOOLEAN :
        /\ setEcho(b)
        /\ Record("setEcho", <<>>)
        /\ Keep /\ UNCHANGED <<termVars, managerVars>>

ConnectDevice ==
    /\ connectDevice
    /\ Record("connectDevice", <<>>)
    /\ Keep /\ UNCHANGED <<termVars, consoleVars>>

DisconnectDevice ==
    /\ disconnectDevice
    /\ Record("disconnectDevice", <<>>)
    /\ Keep /\ UNCHANGED <<termVars, consoleVars>>

ToggleConnection ==
    /\ toggleConnection
    /\ Record("toggleConnection", <<>>)
    /\ Keep /\ UNCHANGED <<termVars, consoleVars>>

SetPortIndex ==
    \E i \in 0..(MaxPorts + 1) :
        /\ setPortIndex(i)
        /\ Record("setPortIndex", <<>>)
        /\ Keep /\ UNCHANGED <<termVars, consoleVars>>

\* a serial port is plugged in or removed
PortsChange ==
    /\ ports' \in 0..MaxPorts
    /\ ports' # ports
    /\ Record("portsChange", <<>>)
    /\ Keep /\ UNCHANGED <<termVars, consoleVars, m_port, m_portIndex, openPorts>>

Next ==
    \/ StringReceived \/ Clear \/ SetVt100Emulation \/ SetAutoscroll
    \/ Send \/ HistoryUp \/ HistoryDown \/ SetEcho
    \/ ConnectDevice \/ DisconnectDevice \/ ToggleConnection \/ SetPortIndex
    \/ PortsChange

Spec == Init /\ [][Next]_vars

----------------------------------------------------------------------------
(* Frame properties of the whole program *)

\* C9: clear() empties the document and changes nothing else: the
\* interpreter state, the VT-100 and autoscroll flags, the command history,
\* the history cursor and the console configuration stay as they were.
C9_ClearOnlyEmptiesDocument ==
    [][last'.op = "clear" =>
         /\ doc' = <<>>
         /\ UNCHANGED <<m_terminalState, m_emulateVt100, m_autoscroll,
                        m_historyItems, m_historyItem, config>>]_vars

\* clear() of a document with text, the interpreter inside an escape
\* sequence, both flags and the echo changed from their defaults, and the
\* user browsing a history of two commands
C9_Witness ==
    /\ last.op = "clear"
    /\ last.preDoc # <<>>
    /\ doc = <<>>
    /\ m_terminalState = VT100_Command
    /\ m_emulateVt100
    /\ ~m_autoscroll
    /\ Len(m_historyItems) = MaxHistory
    /\ m_historyItem = 0
    /\ config.echo
    /\ ~config.autoscroll

\* C10: a step that disconnects (disconnectDevice, or any step that resets
\* the port handle) leaves the document, the interpreter state, the command
\* history, the history cursor and the console configuration unchanged; the
\* port handle is null after it.
C10_DisconnectKeepsConsole ==
    [][(last'.op = "disconnectDevice" \/ (m_port # "null" /\ m_port' = "null")) =>
         /\ m_port' = "null"
         /\ UNCHANGED <<doc, m_terminalState, m_emulateVt100, m_autoscroll,
                        m_historyItems, m_historyItem, config>>]_vars

\* disconnectDevice() of an open port with text displayed, the interpreter
\* inside an escape sequence and the user browsing the history
C10_Witness ==
    /\ last.op = "disconnectDevice"
    /\ last.prePort = "open"
    /\ m_port = "null"
    /\ doc # <<>>
    /\ m_terminalState = VT100_Escape
    /\ m_historyItems # <<>>
    /\ m_historyItem = 0
    /\ config.echo

----------------------------------------------------------------------------
(* The command history alone: commands are sent (no device is connected),  *)
(* recorded and browsed.                                                    *)

HistCommands == {<<"h", "i">>, <<"2">>, <<"a">>}

InitHist == InitTerminal /\ InitHistory /\ InitConsole /\ InitManager /\ InitFileTransmission /\ ports = 0

HistFrame == UNCHANGED <<stream, twin, phase, managerVars, fileVars, baudVars>>

HistSend ==
    \E data \in HistCommands \cup {<<>>} :
      \E bytes \in SendResults(data) :
        /\ Len(m_historyItems) < MaxHistory
        /\ send(data, bytes)
        /\ RecordSend(data, bytes)
        /\ HistFrame

HistRecord ==
    \E command \in HistCommands \cup {<<>>} :
        /\ Len(m_historyItems) < MaxHistory
        /\ addToHistory(command)
        /\ Record("addToHistory", command)
        /\ HistFrame /\ UNCHANGED <<termVars, config>>

HistUp == historyUp /\ RecordUp /\ HistFrame /\ UNCHANGED termVars

HistDown ==
    historyDown /\ Record("historyDown", <<>>) /\ HistFrame /\ UNCHANGED termVars

NextHist == HistSend \/ HistRecord \/ HistUp \/ HistDown

SpecHist == InitHist /\ [][NextHist]_vars

\* C12: historyUp moves the cursor one step toward older entries (from not
\* browsing to the newest entry) and yields the entry at the new cursor; at
\* the oldest entry the cursor stays and that entry is yielded again; nothing
\* is yielded only when the history is empty; the cursor is always -1 or the
\* index of an entry.
C12_HistoryUpOneStepOlder ==
    /\ [](m_historyItem \in -1..(Len(m_historyItems) - 1))
    /\ [][last'.op = "historyUp" =>
            IF m_historyItems = <<>>
            THEN m_historyItem' = m_historyItem /\ currentHistoryString' = <<>>
            ELSE /\ m_historyItem' = (IF m_historyItem = -1
                                      THEN Len(m_historyItems) - 1
                                      ELSE IF m_historyItem = 0 THEN 0
                                      ELSE m_historyItem - 1)
                 /\ currentHistoryString' = m_historyItems[m_historyItem' + 1]
                 /\ currentHistoryString' # <<>>]_vars

\* historyUp at the oldest of two different entries: the cursor stays and the
\* oldest entry is recalled again
C12_Witness ==
    /\ last.op = "historyUp"
    /\ last.preItem = 0
    /\ m_historyItem = 0
    /\ Len(m_historyItems) = MaxHistory
    /\ m_historyItems[1] # m_historyItems[MaxHistory]
    /\ currentHistoryString = m_historyItems[1]

\* the last operation ended N historyUp() calls in a row that began while
\* not browsing
UpsInARow(N) == last.op = "historyUp" /\ last.ups = N

\* C13 as stated: on a history of M entries the N-th of the calls, N <= M,
\* returns the N-th most recent entry and the (M+1)-th returns nothing.
C13_UpsThenNone ==
    LET M == Len(m_historyItems) IN
    \A N \in 1..(M + 1) :
        UpsInARow(N) =>
            IF N <= M
            THEN currentHistoryString = m_historyItems[M - N + 1]
            ELSE currentHistoryString = <<>>

\* C13 amended: the N-th call, N <= M, returns the N-th most recent entry;
\* the (M+1)-th and every later call returns the oldest entry again; nothing
\* is returned only on an empty history.
C13_UpsThenOldest ==
    LET M == Len(m_historyItems) IN
    \A N \in 1..(MaxHistory + 2) :
        UpsInARow(N) =>
            /\ N <= M => currentHistoryString = m_historyItems[M - N + 1]
            /\ (N > M /\ M > 0) => currentHistoryString = m_historyItems[1]
            /\ currentHistoryString = <<>> <=> M = 0

\* the call after the oldest of MaxHistory different entries was reached
C13_Witness ==
    /\ Len(m_historyItems) = MaxHistory
    /\ UpsInARow(MaxHistory + 1)
    /\ m_historyItems[1] # m_historyItems[MaxHistory]
    /\ currentHistoryString = m_historyItems[1]

\* C15: recording a command appends it as the newest entry unless it is
\* empty, and then leaves the list as it is; either way the cursor is "not
\* browsing" afterwards.
C15_RecordAppendsUnlessEmpty ==
    [][last'.op = "addToHistory" =>
         /\ last'.arg # <<>> => m_historyItems' = Append(m_historyItems, last'.arg)
         /\ last'.arg = <<>> => m_historyItems' = m_historyItems
         /\ m_historyItem' = -1]_vars

\* an empty command recorded while the user was browsing
C15_Witness ==
    /\ last.op = "addToHistory"
    /\ last.arg = <<>>
    /\ last.preItem = 0
    /\ m_historyItems # <<>>
    /\ m_historyItem = -1

\* C16: historyDown moves the cursor one step toward newer entries and
\* yields the entry there; at the newest entry it sets the cursor to "not
\* browsing" and the recalled text is empty.
C16_HistoryDownOneStepNewer ==
    [][last'.op = "historyDown" /\ m_historyItem >= 0 =>
         IF m_historyItem < Len(m_historyItems) - 1
         THEN /\ m_historyItem' = m_historyItem + 1
              /\ currentHistoryString' = m_historyItems[m_historyItem + 2]
         ELSE /\ m_historyItem' = -1
              /\ currentHistoryString' = <<>>]_vars

\* historyDown at the newest of MaxHistory entries
C16_Witness ==
    /\ last.op = "historyDown"
    /\ Len(m_historyItems) = MaxHistory
    /\ last.preItem = MaxHistory - 1
    /\ m_historyItem = -1
    /\ currentHistoryString = <<>>

----------------------------------------------------------------------------
(* The history in the whole program *)

\* C14: the list of history entries changes only by send appending one entry
\* at its end; historyUp and historyDown leave it as it is.
C14_HistoryAppendOnly ==
    [][/\ m_historyItems' # m_historyItems =>
            /\ last'.op = "send"
            /\ m_historyItems' = Append(m_historyItems, last'.arg)
       /\ last'.op \in {"historyUp", "historyDown"} =>
            m_historyItems' = m_historyItems]_vars

\* a command sent while the user was browsing the history: entries were
\* recalled between the sends, and the list is the sent commands in order
C14_Witness ==
    /\ last.op = "send"
    /\ last.arg # <<>>
    /\ last.preItem = 0
    /\ Len(m_historyItems) = MaxHistory
    /\ m_historyItems[MaxHistory] = last.arg

----------------------------------------------------------------------------
(* The configuration alone: the setters of the console and of the widget,  *)
(* called with any value in any order.                                      *)

InitConfig == InitTerminal /\ InitHistory /\ InitConsole /\ InitManager /\ InitFileTransmission /\ ports = 0

ConfigFrame ==
    UNCHANGED <<stream, twin, phase, managerVars, fileVars, baudVars,
                m_historyItems,
                m_historyItem>>

CfgSetEcho ==
    \E b \in BOOLEAN :
        /\ setEcho(b)
        /\ RecordSetter("setEcho", b, config.echo, ConsoleSetterSignals("setEcho"))
        /\ ConfigFrame /\ UNCHANGED termVars

CfgSetDataMode ==
    \E m \in DataModes :
        /\ setDataMode(m)
        /\ RecordSetter("setDataMode", m, config.dataMode, ConsoleSetterSignals("setDataMode"))
        /\ ConfigFrame /\ UNCHANGED termVars

CfgSetDisplayMode ==
    \E m \in DisplayModes :
        /\ setDisplayMode(m)
        /\ RecordSetter("setDisplayMode", m, config.displayMode, ConsoleSetterSignals("setDisplayMode"))
        /\ ConfigFrame /\ UNCHANGED termVars

CfgSetLineEnding ==
    \E m \in LineEndings :
        /\ setLineEnding(m)
        /\ RecordSetter("setLineEnding", m, config.lineEnding, ConsoleSetterSignals("setLineEnding"))
        /\ ConfigFrame /\ UNCHANGED termVars

CfgSetShowTimestamp ==
    \E b \in BOOLEAN :
        /\ setShowTimestamp(b)
        /\ RecordSetter("setShowTimestamp", b, config.showTimestamp,
                        ConsoleSetterSignals("setShowTimestamp"))
        /\ ConfigFrame /\ UNCHANGED termVars

CfgConsoleSetAutoscroll ==
    \E b \in BOOLEAN :
        /\ Console_setAutoscroll(b)
        /\ RecordSetter("Console::setAutoscroll", b, config.autoscroll,
                        ConsoleSetterSignals("Console::setAutoscroll"))
        /\ ConfigFrame /\ UNCHANGED termVars

CfgSetAutoscroll ==
    \E b \in BOOLEAN :
        /\ setAutoscroll(b)
        /\ RecordSetter("setAutoscroll", b, m_autoscroll, setAutoscrollSignals(b))
        /\ UNCHANGED <<stream, twin, phase, managerVars, fileVars, baudVars>>

CfgSetVt100Emulation ==
    \E b \in BOOLEAN :
        /\ setVt100Emulation(b)
        /\ RecordSetter("setVt100Emulation", b, m_emulateVt100, setVt100EmulationSignals(b))
        /\ ConfigFrame /\ UNCHANGED config

NextConfig ==
    \/ CfgSetEcho \/ CfgSetDataMode \/ CfgSetDisplayMode \/ CfgSetLineEnding
    \/ CfgSetShowTimestamp \/ CfgConsoleSetAutoscroll \/ CfgSetAutoscroll
    \/ CfgSetVt100Emulation

SpecConfig == InitConfig /\ [][NextConfig]_vars

\* the configuration: the fields of the console and the flags of the widget
Settings ==
    [dataMode |-> config.dataMode, displayMode |-> config.displayMode,
     lineEnding |-> config.lineEnding, echo |-> config.echo,
     autoscroll |-> config.autoscroll, showTimestamp |-> config.showTimestamp,
     vt100Enabled |-> m_emulateVt100, widgetAutoscroll |-> m_autoscroll]

Setters == {"setEcho", "setDataMode", "setDisplayMode", "setLineEnding",
            "setShowTimestamp", "Console::setAutoscroll", "setAutoscroll",
            "setVt100Emulation"}

\* the fields a setter is to set, and the change notification it is to raise
OwnFields(setter) ==
    CASE setter = "setEcho" -> {"echo"}
      [] setter = "setDataMode" -> {"dataMode"}
      [] setter = "setDisplayMode" -> {"displayMode"}
      [] setter = "setLineEnding" -> {"lineEnding"}
      [] setter = "setShowTimestamp" -> {"showTimestamp"}
      [] setter = "Console::setAutoscroll" -> {"autoscroll"}
      [] setter = "setAutoscroll" -> {"autoscroll", "widgetAutoscroll"}
      [] setter = "setVt100Emulation" -> {"vt100Enabled"}
OwnNotification(setter) ==
    CASE setter = "setEcho" -> "Console::echoChanged"
      [] setter = "setDataMode" -> "Console::dataModeChanged"
      [] setter = "setDisplayMode" -> "Console::displayModeChanged"
      [] setter = "setLineEnding" -> "Console::lineEndingChanged"
      [] setter = "setShowTimestamp" -> "Console::showTimestampChanged"
      [] setter = "Console::setAutoscroll" -> "Console::autoscrollChanged"
      [] setter = "setAutoscroll" -> "TerminalWidget::autoscrollChanged"
      [] setter = "setVt100Emulation" -> "TerminalWidget::vt100EmulationChanged"

\* how often signal occurs among signals
Count(signal, signals) ==
    Cardinality({i \in 1..Len(signals) : signals[i] = signal})

\* C17: every configuration setter raises its own change notification
\* exactly once per call, also when the value is the current one, sets its
\* field and changes no other field of the configuration.
C17_SettersNotifyOnce ==
    [][last'.op \in Setters =>
         /\ Count(OwnNotification(last'.op), last'.signals) = 1
         /\ \A f \in DOMAIN Settings :
                Settings'[f] = IF f \in OwnFields(last'.op) THEN last'.arg[1]
                               ELSE Settings[f]]_vars

\* setVt100Emulation(true) while the emulation is enabled, the other fields
\* changed from their defaults
C17_Witness ==
    /\ last.op = "setVt100Emulation"
    /\ last.same
    /\ last.arg = <<TRUE>>
    /\ last.signals = <<"TerminalWidget::vt100EmulationChanged">>
    /\ m_emulateVt100
    /\ ~m_autoscroll
    /\ config.echo
    /\ config.lineEnding = "BothNewLineAndCarriageReturn"
    /\ config.dataMode = "DataHexadecimal"

----------------------------------------------------------------------------
(* Framing: texts are sent in both data modes with every line ending, to a *)
(* device that is connected or not; echo is off.                            *)

FrameTexts == {<<"h", "i">>, <<"4", "1">>, <<"g">>, <<"4", "1", SP, "g">>,
               <<"0">>}

InitFrame == InitTerminal /\ InitHistory /\ InitConsole /\ InitManager /\ InitFileTransmission /\ ports = 1

FrameKeep == UNCHANGED <<stream, twin, phase, fileVars, baudVars>>

FrSend ==
    \E data \in FrameTexts :
      \E bytes \in SendResults(data) :
        /\ Len(m_historyItems) < MaxHistory
        /\ send(data, bytes)
        /\ RecordSend(data, bytes)
        /\ FrameKeep /\ UNCHANGED managerVars

FrSetLineEnding ==
    \E m \in LineEndings :
        /\ setLineEnding(m)
        /\ RecordSetter("setLineEnding", m, config.lineEnding,
                        ConsoleSetterSignals("setLineEnding"))
        /\ FrameKeep /\ UNCHANGED <<termVars, managerVars>>

FrSetDataMode ==
    \E m \in DataModes :
        /\ setDataMode(m)
        /\ RecordSetter("setDataMode", m, config.dataMode,
                        ConsoleSetterSignals("setDataMode"))
        /\ FrameKeep /\ UNCHANGED <<termVars, managerVars>>

FrSetPortIndex ==
    \E i \in 0..1 :
        /\ setPortIndex(i)
        /\ Record("setPortIndex", <<>>)
        /\ FrameKeep /\ UNCHANGED <<termVars, consoleVars>>

FrToggleConnection ==
    /\ toggleConnection
    /\ Record("toggleConnection", <<>>)
    /\ FrameKeep /\ UNCHANGED <<termVars, consoleVars>>

NextFrame ==
    \/ FrSend \/ FrSetLineEnding \/ FrSetDataMode \/ FrSetPortIndex
    \/ FrToggleConnection

SpecFrame == InitFrame /\ [][NextFrame]_vars

\* the line-ending bytes as the claim lists them
ExpectedEnding ==
    CASE config.lineEnding = "NoLineEnding" -> <<>>
      [] config.lineEnding = "NewLine" -> <<10>>
      [] config.lineEnding = "CarriageReturn" -> <<13>>
      [] config.lineEnding = "BothNewLineAndCarriageReturn" -> <<13, 10>>

\* text holds no token of two hexadecimal digits
NoHexToken(text) ==
    \A i \in 1..Len(Tokens(text)) :
        LET t == Tokens(text)[i] IN
        ~(Len(t) = 2 /\ t[1] \in HexDigits /\ t[2] \in HexDigits)

\* C18: the bytes send hands to the transport are the encoded text followed
\* by exactly the line-ending bytes; every non-empty text in UTF-8 mode is
\* handed over, and "hi" with both line endings gives 68 69 0D 0A.
C18_FrameIsTextThenEnding ==
    last.op = "send" =>
        /\ last.wrote =>
              last.sent = (IF config.dataMode = "DataHexadecimal"
                           THEN hexToBytes(last.arg) ELSE toUtf8(last.arg))
                          \o ExpectedEnding
        /\ (config.dataMode = "DataUTF8" /\ last.arg # <<>>) => last.wrote
        /\ (/\ config.dataMode = "DataUTF8"
            /\ last.arg = <<"h", "i">>
            /\ config.lineEnding = "BothNewLineAndCarriageReturn")
              => last.sent = <<104, 105, 13, 10>>

\* "hi" sent with both line endings to a connected device
C18_Witness ==
    /\ last.op = "send"
    /\ last.arg = <<"h", "i">>
    /\ config.dataMode = "DataUTF8"
    /\ config.lineEnding = "BothNewLineAndCarriageReturn"
    /\ last.prePort = "open"
    /\ last.sent = <<104, 105, 13, 10>>
    /\ last.written = 4

\* C19: a send in hexadecimal mode of a text without a valid token hands
\* nothing to the transport, no byte and no line ending, and the display
\* stays as it is.
C19_InvalidHexWritesNothing ==
    (/\ last.op = "send"
     /\ config.dataMode = "DataHexadecimal"
     /\ last.arg # <<>>
     /\ NoHexToken(last.arg))
        => /\ ~last.wrote
           /\ last.sent = <<>>
           /\ doc = last.preDoc

\* "g" sent in hexadecimal mode with both line endings to a connected
\* device, after a text with a valid token was sent
C19_Witness ==
    /\ last.op = "send"
    /\ last.arg = <<"g">>
    /\ config.dataMode = "DataHexadecimal"
    /\ config.lineEnding = "BothNewLineAndCarriageReturn"
    /\ last.prePort = "open"
    /\ ~last.wrote
    /\ m_historyItems = <<<<"4", "1", SP, "g">>, <<"g">>>>

----------------------------------------------------------------------------
(* Echo: a command is sent with echo on or off to a device that is          *)
(* connected or not and accepts all, some or none of the bytes.             *)

EchoCommands == {<<"h", "i">>}

InitEcho == InitTerminal /\ InitHistory /\ InitConsole /\ InitManager /\ InitFileTransmission /\ ports = 1

EchoSend ==
    \E data \in EchoCommands :
      \E bytes \in SendResults(data) :
        /\ Len(m_historyItems) < MaxHistory
        /\ send(data, bytes)
        /\ Len(doc') <= MaxDoc
        /\ RecordSend(data, bytes)
        /\ FrameKeep /\ UNCHANGED managerVars

EchoSetEcho ==
    \E b \in BOOLEAN :
        /\ setEcho(b)
        /\ RecordSetter("setEcho", b, config.echo, ConsoleSetterSignals("setEcho"))
        /\ FrameKeep /\ UNCHANGED <<termVars, managerVars>>

EchoClear ==
    /\ clear
    /\ Record("clear", <<>>)
    /\ FrameKeep /\ UNCHANGED <<consoleVars, managerVars>>

NextEcho ==
    \/ EchoSend \/ EchoSetEcho \/ EchoClear \/ FrSetPortIndex
    \/ FrToggleConnection

SpecEcho == InitEcho /\ [][NextEcho]_vars

----------------------------------------------------------------------------
(* Escape sequences across deliveries and aborted sequences *)

\* the stream is text without ESC, then ESC, then the introducer c, and c
\* arrived as a delivery of its own after the one that ended with ESC
IntroducerAfterSplit(c) ==
    /\ Len(stream) >= 2
    /\ stream[Len(stream)] = c
    /\ stream[Len(stream) - 1] = ESC
    /\ ~HasEsc(SubSeq(stream, 1, Len(stream) - 2))
    /\ last.arg = <<c>>

\* C28: after a delivery that ended with ESC, a delivery beginning with '['
\* enters VT100_Command and one beginning with '(' VT100_ResetFont, as if ESC
\* and the introducer had arrived together; the text before ESC is in the
\* document.
C28_IntroducerAfterSplitEscape ==
    \A c \in {"[", "("} :
        IntroducerAfterSplit(c) =>
            /\ last.preState = VT100_Escape
            /\ m_terminalState = (IF c = "[" THEN VT100_Command
                                  ELSE VT100_ResetFont)
            /\ doc = SubSeq(stream, 1, Len(stream) - 2)
            /\ last.preDoc = doc
            /\ m_terminalState = addText(<<>>, VT100_Text, stream, TRUE).st
            /\ doc = addText(<<>>, VT100_Text, stream, TRUE).doc

\* two lines of text, ESC at the end of a delivery, '(' in the next
C28_Witness ==
    /\ IntroducerAfterSplit("(")
    /\ Len(stream) = MaxStream
    /\ HasLF(doc)
    /\ doc[Len(doc)] # LF
    /\ m_terminalState = VT100_ResetFont

\* C29: in VT100_Command an ESC aborts the command and moves to
\* VT100_Escape, and the token collected so far is discarded:
\* ESC [ 2 ESC [ 2 J clears the screen exactly once, ESC [ 2 ESC [ J not at
\* all.
C29_EscapeAbortsCommand ==
    /\ (InsertedVt100 /\ last.preState = VT100_Command /\ last.arg = <<ESC>>)
          => /\ m_terminalState = VT100_Escape
             /\ doc = last.preDoc
             /\ last.clears = 0
    /\ (InsertedVt100 /\ last.preState = VT100_Text /\ last.arg = AbortThenClearSeq)
          => /\ last.clears = 1
             /\ doc = <<>>
             /\ m_terminalState = VT100_Text
    /\ (InsertedVt100 /\ last.preState = VT100_Text /\ last.arg = AbortThenJSeq)
          => /\ last.clears = 0
             /\ doc = last.preDoc

\* ESC [ 2 ESC [ 2 J delivered to a full document
C29_Witness ==
    /\ InsertedVt100
    /\ last.preState = VT100_Text
    /\ last.arg = AbortThenClearSeq
    /\ Len(last.preDoc) = MaxDoc
    /\ last.clears = 1
    /\ doc = <<>>

\* the characters of the model that are neither ESC nor a letter or digit
Others == {c \in Chars : c # ESC /\ ~IsAlnum(c)}

\* C30: in VT100_Command a character that is neither ESC nor a letter or
\* digit ends the sequence: the interpreter is in VT100_Text, the character
\* is not in the document, the screen is not cleared, and the character
\* after it is displayed as text.
C30_OtherCharacterEndsCommand ==
    /\ (InsertedVt100 /\ last.preState = VT100_Command
        /\ Len(last.arg) = 1 /\ last.arg[1] \in Others)
          => /\ m_terminalState = VT100_Text
             /\ doc = last.preDoc
             /\ last.clears = 0
    /\ \A c \in Others : \A n \in {"2", "J", "H"} :
          LET r == addText(doc, VT100_Command, <<c, n>>, TRUE) IN
          /\ r.doc = Append(doc, n)
          /\ r.st = VT100_Text
          /\ r.clears = 0

\* a line break ends a command while the document holds text
C30_Witness ==
    /\ InsertedVt100
    /\ last.preState = VT100_Command
    /\ last.arg = <<LF>>
    /\ last.preDoc # <<>>
    /\ doc = last.preDoc
    /\ m_terminalState = VT100_Text


----------------------------------------------------------------------------
(* File transmission: the file, the timer and the connection *)

InitFile ==
    /\ InitTerminal
    /\ InitHistory
    /\ InitConsole
    /\ InitManager
    /\ InitFileTransmission
    /\ ports = 1

FileKeep == UNCHANGED <<stream, twin, phase, consoleVars, baudVars>>

\* stream is here the history of the text stream: the lines handed to
\* writeData since the stream was at the start of its file
FileGhost == UNCHANGED <<twin, phase, consoleVars, baudVars>>

FileOpenFile ==
    /\ running
    /\ \E selected \in BOOLEAN, file \in Files, ok \in BOOLEAN :
        /\ openFile(selected, file, ok)
        /\ stream' = IF selected THEN <<>> ELSE stream
    /\ Record("openFile", <<>>)
    /\ FileGhost /\ UNCHANGED <<termVars, managerVars>>

FileCloseFile ==
    /\ running
    /\ closeFile
    /\ stream' = <<>>
    /\ Record("closeFile", <<>>)
    /\ FileGhost /\ UNCHANGED <<termVars, managerVars>>

FileBeginTransmission ==
    /\ running
    /\ beginTransmission
    /\ stream' = IF connected /\ transmissionProgress = 100 THEN <<>> ELSE stream
    /\ Record("beginTransmission", <<>>)
    /\ FileGhost /\ UNCHANGED <<termVars, managerVars>>

FileStopTransmission ==
    /\ running
    /\ stopTransmission
    /\ Record("stopTransmission", <<>>)
    /\ FileKeep /\ UNCHANGED <<termVars, managerVars, m_file, m_stream, running>>

\* the slot of m_timer's timeout
FileTimeout ==
    /\ running
    /\ \E bytes \in SendLineResults :
        /\ sendLine(bytes)
        /\ RecordSendLine(bytes)
    /\ stream' = IF SendsLine THEN Append(stream, LineBytes) ELSE stream
    /\ FileGhost /\ UNCHANGED managerVars

FileSetPortIndex ==
    /\ running
    /\ \E i \in 0..MaxPorts :
        /\ setPortIndex(i)
        /\ Record("setPortIndex", <<i>>)
    /\ FileKeep /\ UNCHANGED <<termVars, fileVars, baudVars>>

FileConnectDevice ==
    /\ running
    /\ connectDevice
    /\ RecordHandles("connectDevice", <<>>)
    /\ FileKeep /\ UNCHANGED <<termVars, fileVars, baudVars>>

FileDisconnectDevice ==
    /\ running
    /\ disconnectDevice
    /\ RecordHandles("disconnectDevice", <<>>)
    /\ FileKeep /\ UNCHANGED <<termVars, fileVars, baudVars>>

FileToggleConnection ==
    /\ running
    /\ toggleConnection
    /\ RecordHandles("toggleConnection", <<>>)
    /\ FileKeep /\ UNCHANGED <<termVars, fileVars, baudVars>>

\* the slot of the port's errorOccurred, connected while the handle exists
FileHandleError ==
    /\ running
    /\ m_port # "null"
    /\ \E error \in {"NoError", "ResourceError"} :
        /\ handleError(error)
        /\ RecordHandles("handleError", <<error>>)
    /\ FileKeep /\ UNCHANGED <<termVars, fileVars, baudVars>>

\* Console::send of a command while a file may be in transmission
FileSend ==
    /\ running
    /\ \E data \in EchoCommands :
        \E bytes \in SendResults(data) :
            /\ Len(m_historyItems) < MaxHistory
            /\ send(data, bytes)
            /\ RecordSend(data, bytes)
    /\ UNCHANGED <<stream, twin, phase, managerVars, fileVars, baudVars>>

NextFile ==
    \/ FileSend \/ FileOpenFile \/ FileCloseFile \/ FileBeginTransmission
    \/ FileStopTransmission \/ FileTimeout \/ FileSetPortIndex
    \/ FileConnectDevice \/ FileDisconnectDevice \/ FileToggleConnection
    \/ FileHandleError

SpecFile == InitFile /\ [][NextFile]_vars

\* the event loop delivers the timeouts of an active timer
SpecFileFair == SpecFile /\ WF_vars(FileTimeout)

\* C21: a send or a timer tick hands its own bytes to the port in one write
\* at most, and in none when no device is connected: the result is then -1
\* and nothing is signalled; the result is the number of bytes the port
\* accepted, signalled by tx and dataSent when positive.  The bytes handed
\* over are those of the call alone, whatever an earlier write left unwritten.
C21_WriteOnceNoRetry ==
    last.op \in {"send", "sendLine"} =>
        /\ last.portWrites = IF last.wrote /\ last.prePort = "open" THEN 1 ELSE 0
        /\ last.prePort # "open" =>
               last.written = -1 /\ last.txSignals = <<>> /\ doc = last.preDoc
        /\ last.written \in -1..Len(last.sent)
        /\ last.txSignals = IF last.written > 0
                            THEN <<"Manager::tx", "Manager::dataSent">> ELSE <<>>
        /\ last.op = "send" =>
               last.sent = IF last.wrote THEN Frame(last.arg) ELSE <<>>
        /\ last.op = "sendLine" =>
               last.sent = IF last.wrote
                           THEN toUtf8(last.preFile.lines[last.preStream.pos + 1]
                                       \o <<LF>>)
                           ELSE <<>>

\* a line of which the port accepted a part only, and the next line sent
\* whole after a send that failed
C21_Witness ==
    /\ last.op = "sendLine"
    /\ last.wrote
    /\ last.portWrites = 1
    /\ last.written = 1
    /\ Len(last.sent) = 2
    /\ last.preStream.pos = 1
    /\ m_historyItems # <<>>

\* C22: after any sequence of connectDevice, disconnectDevice,
\* toggleConnection and port errors at most one serial port is open, and it
\* is the one of the port handle: connectDevice closes the port of the
\* previous handle before it opens a new one.
C22_OnePortOpen ==
    /\ openPorts <= 1
    /\ openPorts = IF m_port = "open" THEN 1 ELSE 0

\* connectDevice on a manager whose port is open, the new port open
C22_Witness ==
    /\ last.op = "connectDevice"
    /\ last.prePort = "open"
    /\ m_port = "open"
    /\ openPorts = 1

\* C23: whenever the device is disconnected while a file transmission is
\* active, the transmission stops with the disconnect: active() is false
\* after the step that disconnects.
C23_DisconnectStopsTransmission ==
    [][(active /\ connected /\ ~connected') => ~active']_vars

\* C24: a transmission of a file that is left to the timer, the device
\* staying connected, reaches the end of the file and stops itself: if from
\* some point on only timer ticks happen, with a file open and the device
\* connected, the timer is inactive from some point on.  The tick that stops
\* the timer finds the stream at the end of the file and writes no line, and
\* a line is written by a tick of an active timer only.
C24_TransmissionEndsAtEof ==
    /\ [](last.op = "sendLine" /\ last.wrote => last.preTimer)
    /\ [](last.op = "sendLine" /\ last.preTimer /\ ~active /\ m_file.open =>
              atEnd /\ ~last.wrote /\ m_stream = last.preStream)
    /\ (<>[](last.op = "sendLine" /\ connected /\ m_file.open) => <>[]~active)

\* the tick that stops the transmission of a file of MaxLines lines at its end
C24_Witness ==
    /\ last.op = "sendLine"
    /\ last.preTimer
    /\ ~active
    /\ connected
    /\ m_file.open
    /\ Len(m_file.lines) = MaxLines
    /\ m_stream.pos = MaxLines

\* C25: beginTransmission() on a connected device starts the timer; if the
\* open file has been read to its end (the progress is then 100, or the file
\* is empty) the stream is back at the start of the file after it, and at
\* every earlier position the stream stays where it is.  The progress is 100
\* at the end of the file only.
C25_BeginRewindsAtEnd ==
    [][(last'.op = "beginTransmission" /\ connected /\ m_file.open
            /\ m_stream.state = "live") =>
         /\ active'
         /\ m_stream'.state = "live"
         /\ m_stream'.pos = IF atEnd THEN 0 ELSE m_stream.pos
         /\ transmissionProgress = 100 => atEnd /\ m_stream.pos > 0
         /\ UNCHANGED m_file]_vars

\* beginTransmission() after a file of MaxLines lines was read to its end
C25_Witness ==
    /\ last.op = "beginTransmission"
    /\ last.prePort = "open"
    /\ last.preProgress = 100
    /\ last.preStream.pos = MaxLines
    /\ m_stream.pos = 0
    /\ m_file.open
    /\ active

\* C26: transmissionProgress() is an integer from 0 to 100; it is 0 whenever
\* no file is open, the file is empty or no device is connected; and a timer
\* tick never lowers it.
C26_ProgressInRange ==
    /\ [](/\ transmissionProgress \in 0..100
          /\ (~m_file.open \/ FileSize = 0 \/ ~connected) => transmissionProgress = 0)
    /\ [][last'.op = "sendLine" => transmissionProgress' >= transmissionProgress]_vars

\* a tick that has raised the progress to a value inside the range
C26_Witness ==
    /\ last.op = "sendLine"
    /\ last.preProgress < transmissionProgress
    /\ transmissionProgress \in 1..99

----------------------------------------------------------------------------
(* The hexadecimal codec: bytes are rendered for display and the text is   *)
(* parsed back.                                                            *)

\* most bytes of a sequence
MaxBytes == 3

\* the bytes and the byte sequences rendered
HexBytes == {0, 10, 164, 255}
ByteSeqs == UNION {[1..n -> HexBytes] : n \in 0..MaxBytes}

InitHex ==
    /\ InitTerminal
    /\ InitConsole
    /\ InitManager
    /\ InitFileTransmission
    /\ ports = 0
    /\ stream = <<>>
    /\ twin = NoTwin
    /\ phase = "history"
    /\ \E bytes \in ByteSeqs : last = [NoOp EXCEPT !.arg = bytes]

\* the bytes are rendered and the text is displayed
HexDecode ==
    /\ last.op = "init"
    /\ insertText(hexadecimalStr(last.arg))
    /\ Record("decode", last.arg)
    /\ UNCHANGED <<stream, twin, phase, consoleVars, managerVars, fileVars, baudVars>>

\* the text displayed is parsed
HexEncode ==
    /\ last.op = "decode"
    /\ last' = [Rec("encode", last.arg) EXCEPT !.sent = hexToBytes(doc)]
    /\ UNCHANGED <<termVars, stream, twin, phase, consoleVars, managerVars, fileVars, baudVars>>

NextHex == HexDecode \/ HexEncode

SpecHex == InitHex /\ [][NextHex]_vars

\* C27: in hexadecimal mode every byte is rendered as two uppercase
\* hexadecimal digits, the high one first, with a single space between two
\* bytes and none around them, and parsing that text gives the bytes back.
C27_HexRoundTrip ==
    /\ last.op \in {"decode", "encode"} =>
           LET n == Len(last.arg) IN
           /\ Len(doc) = IF n = 0 THEN 0 ELSE 3 * n - 1
           /\ \A i \in 1..n :
                  /\ doc[3 * i - 2] = UpperDigits[(last.arg[i] \div 16) + 1]
                  /\ doc[3 * i - 1] = UpperDigits[(last.arg[i] % 16) + 1]
                  /\ i < n => doc[3 * i] = SP
    /\ last.op = "encode" => last.sent = last.arg

\* MaxBytes bytes, a line break and a byte of two letters among them,
\* rendered and parsed back
C27_Witness ==
    /\ last.op = "encode"
    /\ Len(last.arg) = MaxBytes
    /\ last.arg[1] = 10
    /\ last.arg[2] = 164
    /\ last.sent = last.arg
    /\ SubSeq(doc, 1, 5) = <<"0", "A", SP, "A", "4">>

----------------------------------------------------------------------------
(* Echo between received chunks: the widget receives chunks and displays   *)
(* the echo of the commands sent in between; a second run receives the     *)
(* same chunks and no echo.                                                *)

ShareChunks == {<<ESC, "[">>, <<"2", "J">>, <<"2">>}
ShareCommands == {<<"h", "i">>, <<"h", "i", "h">>}

\* the second run: its document, its interpreter state and its
\* textEdit()->clear() calls (clears); mainClears counts those of the widget
ShareTwin == [doc |-> <<>>, st |-> VT100_Text, clears |-> 0, mainClears |-> 0]

\* the text Console::onDataSent displays for send(data) returning bytes
EchoText(data, bytes) ==
    IF Writes(data) /\ bytes > 0 /\ config.echo
    THEN fromUtf8(SubSeq(Frame(data), 1, bytes))
    ELSE <<>>

InitShare ==
    /\ doc = <<>>
    /\ m_terminalState = VT100_Text
    /\ m_emulateVt100 = TRUE
    /\ m_autoscroll = TRUE
    /\ last = NoOp
    /\ stream = <<>>
    /\ phase = "history"
    /\ twin = ShareTwin
    /\ InitConsole
    /\ InitManager
    /\ InitFileTransmission
    /\ ports = 1

\* a chunk arrives: stringReceived -> insertText, in both runs
ShareReceive ==
    \E text \in ShareChunks :
        LET r == addText(twin.doc, twin.st, text, TRUE) IN
        /\ Len(stream) + Len(text) <= MaxStream
        /\ insertText(text)
        /\ Len(doc') <= MaxDoc
        /\ Record("insertText", text)
        /\ stream' = stream \o text
        /\ twin' = [doc |-> r.doc, st |-> r.st, clears |-> twin.clears + r.clears,
                    mainClears |-> twin.mainClears + Cleared("insertText", text)]
        /\ UNCHANGED <<phase, consoleVars, managerVars, fileVars, baudVars>>

\* a command is sent, in the first run only
ShareSend ==
    \E data \in ShareCommands :
      \E bytes \in SendResults(data) :
        /\ Len(m_historyItems) < MaxHistory
        /\ send(data, bytes)
        /\ Len(doc') <= MaxDoc
        /\ RecordSend(data, bytes)
        /\ twin' = [twin EXCEPT !.mainClears =
                        @ + Cleared("insertText", EchoText(data, bytes))]
        /\ UNCHANGED <<stream, phase, managerVars, fileVars, baudVars>>

ShareSetEcho ==
    \E b \in BOOLEAN :
        /\ setEcho(b)
        /\ RecordSetter("setEcho", b, config.echo, ConsoleSetterSignals("setEcho"))
        /\ UNCHANGED <<termVars, stream, twin, phase, managerVars, fileVars, baudVars>>

NextShare ==
    \/ ShareReceive \/ ShareSend \/ ShareSetEcho \/ FrSetPortIndex
    \/ FrToggleConnection

SpecShare == InitShare /\ [][NextShare]_vars

\* the characters of the received chunks, those of the commands being others
IsReceived(c) == c \in {ESC, LF, "[", "2", "J"}

\* C31: a send with echo enabled between two received chunks does not change
\* how the received stream is interpreted: the received characters displayed
\* and the clear-screen actions performed are those of the run without sends.
C31_EchoLeavesReceivedStream ==
    /\ SelectSeq(doc, IsReceived) = twin.doc
    /\ twin.mainClears = twin.clears

----------------------------------------------------------------------------
(* The port handle *)

\* C32: toggleConnection() on a connected manager ends with the manager
\* disconnected and no port handle; on a disconnected manager whose port
\* index is 0 or beyond the valid ports it opens no port and ends
\* disconnected with no port handle.
C32_ToggleConnection ==
    [][last'.op = "toggleConnection" =>
         /\ connected => m_port' = "null" /\ openPorts' = 0
         /\ (~connected /\ (m_portIndex = 0 \/ m_portIndex > ports)) =>
                m_port' = "null" /\ openPorts' = 0
         /\ UNCHANGED ports]_vars

\* toggleConnection() with the handle of a failed open and an index beyond
\* the valid ports
C32_Witness ==
    /\ last.op = "toggleConnection"
    /\ last.prePort = "closed"
    /\ m_portIndex > ports
    /\ m_port = "null"

\* C33: connected() implies that a port handle exists; after
\* disconnectDevice() the handle is null and connected() is false; after a
\* connectDevice() whose open fails connected() is false, and the next
\* connectDevice() or disconnectDevice() releases the handle the failed
\* attempt left.  No step loses a handle: the handles it creates less those
\* it releases are the change of the handle held by m_port.
C33_HandleLifecycle ==
    /\ [](connected => m_port # "null")
    /\ [][/\ last'.op = "disconnectDevice" =>
                 m_port' = "null" /\ ~connected' /\ openPorts' = 0
          /\ (last'.op = "connectDevice" /\ m_port' # "open") => ~connected'
          /\ (last'.op \in {"connectDevice", "disconnectDevice"}
                  /\ m_port = "closed") => last'.released >= 1
          /\ last'.created - last'.released =
                 (IF m_port' # "null" THEN 1 ELSE 0)
                     - (IF m_port # "null" THEN 1 ELSE 0)]_vars

\* connectDevice() on the handle a failed open left: it is released and a
\* new one is opened
C33_Witness ==
    /\ last.op = "connectDevice"
    /\ last.prePort = "closed"
    /\ last.released = 1
    /\ last.created = 1
    /\ m_port = "open"

----------------------------------------------------------------------------
(* The baud rate *)

\* largest baud rate index tried
MaxBaudIndex == 9

InitBaud ==
    /\ InitTerminal
    /\ InitHistory
    /\ InitConsole
    /\ InitManager
    /\ InitFileTransmission
    /\ ports = 1

BaudSetBaudRateIndex ==
    /\ running
    /\ \E index \in -1..MaxBaudIndex :
        /\ setBaudRateIndex(index)
        /\ Record("setBaudRateIndex", <<index>>)
    /\ UNCHANGED <<termVars, stream, twin, phase, consoleVars, managerVars,
                   m_file, m_stream, m_timer>>

BaudSetPortIndex == running /\ FrSetPortIndex

BaudToggleConnection == running /\ FrToggleConnection

NextBaud == BaudSetBaudRateIndex \/ BaudSetPortIndex \/ BaudToggleConnection

SpecBaud == InitBaud /\ [][NextBaud]_vars

\* C34: setBaudRateIndex(index) sets the baud rate to the entry of
\* baudRateList at index if 0 <= index < number of entries; for every other
\* index, the number of entries included, the baud rate and the baud rate
\* index stay as they were and the process goes on.
C34_BaudRateIndexInList ==
    [][last'.op = "setBaudRateIndex" =>
         LET index == last'.arg[1] IN
         IF index >= 0 /\ index < Len(baudRateList)
         THEN /\ m_baudRateIndex' = index
              /\ m_baudRate' = baudRateList[index + 1]
              /\ running'
         ELSE UNCHANGED <<m_baudRate, m_baudRateIndex, running>>]_vars

----------------------------------------------------------------------------
(* Received data *)

\* the data a port holds when it signals readyRead
ReadData == {<<104>>, <<104, 105>>}

InitRead ==
    /\ InitTerminal
    /\ InitHistory
    /\ InitConsole
    /\ InitManager
    /\ InitFileTransmission
    /\ ports = 1

\* the slot of the port's readyRead; it calls port()->readAll() once,
\* whatever port() is
ReadOnDataReceived ==
    /\ running
    /\ \E data \in ReadData, got \in ReadData :
        /\ onDataReceived(data, got)
        /\ Len(doc') <= MaxDoc
        /\ last' = [Rec("onDataReceived", data) EXCEPT
                        !.portReads = 1,
                        !.signals = IF running' THEN onDataReceivedSignals
                                    ELSE <<>>]
    /\ UNCHANGED <<stream, twin, phase, consoleVars, m_file, m_stream, m_timer,
                   baudVars>>

NextRead == ReadOnDataReceived \/ BaudSetPortIndex \/ BaudToggleConnection

SpecRead == InitRead /\ [][NextRead]_vars

\* C35: onDataReceived() run while no port handle exists reads from no port,
\* emits no dataReceived, displays nothing and lets the process go on.
C35_NoReadWithoutPort ==
    (last.op = "onDataReceived" /\ last.prePort = "null") =>
        /\ running
        /\ last.portReads = 0
        /\ last.signals = <<>>
        /\ doc = last.preDoc

----------------------------------------------------------------------------
(* The text stream of the file transmission *)

\* C36: sendLine() uses the text stream (it is past its two guards: the
\* timer active, the device connected) only when a file has been opened and
\* its stream exists; the process goes on.
C36_SendLineHasStream ==
    (last.op = "sendLine" /\ last.preTimer /\ last.prePort = "open") =>
        /\ last.preStream.state = "live"
        /\ running

\* C37: the text stream is released once: after closeFile() no stream
\* handle remains, closeFile() never releases a stream already released, and
\* the process goes on.
C37_StreamReleasedOnce ==
    last.op = "closeFile" =>
        /\ m_stream.state = "null"
        /\ last.preStream.state # "deleted"
        /\ running

\* the non-empty lines among the first n lines, as sendLine() hands them to
\* writeData
RECURSIVE LinesDue(_, _)
LinesDue(lines, n) ==
    IF n = 0 THEN <<>>
    ELSE LinesDue(lines, n - 1)
             \o (IF lines[n] # <<>> THEN <<toUtf8(lines[n] \o <<LF>>)>> ELSE <<>>)

\* C38: the lines handed to writeData since the stream was at the start of
\* the file are the non-empty lines before its position, each once, in file
\* order and ended by a line break: all of them when the transmission stops
\* at the end of the file.  A tick without a connected device leaves the
\* stream where it is.
C38_EveryLineOnce ==
    /\ [](m_file.open /\ m_stream.state = "live" =>
              stream = LinesDue(m_file.lines, m_stream.pos))
    /\ [][(last'.op = "sendLine" /\ ~connected) =>
              UNCHANGED <<m_stream, stream, doc>> /\ ~last'.wrote]_vars

\* a file of MaxLines non-empty lines sent to its end: the tick that finds
\* the end of the file has stopped the transmission
C38_Witness ==
    /\ last.op = "sendLine"
    /\ last.preTimer
    /\ ~active
    /\ m_file.open
    /\ Len(stream) = MaxLines
    /\ m_stream.pos = MaxLines
    /\ m_port = "open"
    /\ openPorts = 1

----------------------------------------------------------------------------
(* The port index *)

InitPorts ==
    /\ InitTerminal
    /\ InitHistory
    /\ InitConsole
    /\ InitManager
    /\ InitFileTransmission
    /\ ports \in 0..MaxPorts

PortsKeep == UNCHANGED <<stream, twin, phase, termVars, consoleVars, fileVars,
                         baudVars>>

\* the port selector hands any index of its list, or one past it when the
\* list has changed since it was shown
PortsSetPortIndex ==
    /\ running
    /\ \E i \in 0..(MaxPorts + 1) :
        /\ setPortIndex(i)
        /\ Record("setPortIndex", <<i>>)
    /\ PortsKeep

PortsConnectDevice ==
    /\ running
    /\ connectDevice
    /\ RecordHandles("connectDevice", <<>>)
    /\ PortsKeep

PortsDisconnectDevice ==
    /\ running
    /\ disconnectDevice
    /\ RecordHandles("disconnectDevice", <<>>)
    /\ PortsKeep

\* a serial port is plugged in or removed while the program runs
PortsPlugged == running /\ PortsChange

NextPorts ==
    \/ PortsSetPortIndex \/ PortsConnectDevice \/ PortsDisconnectDevice
    \/ PortsPlugged \/ FileToggleConnection \/ FileHandleError
    \/ BaudSetBaudRateIndex

SpecPorts == InitPorts /\ [][NextPorts]_vars

\* C39: connectDevice() with a stored index of 0 or one beyond the valid
\* ports creates no port handle and leaves no handle and no connection;
\* setPortIndex(i) stores i when i addresses one of the valid ports of the
\* moment and 0 otherwise; configurationOk() is true exactly when the stored
\* index is greater than 0.
C39_PortIndexChecked ==
    /\ [](configurationOk <=> m_portIndex > 0)
    /\ [][/\ (last'.op = "connectDevice"
                 /\ (m_portIndex = 0 \/ m_portIndex > ports)) =>
                 /\ last'.created = 0
                 /\ m_port' = "null"
                 /\ ~connected'
                 /\ openPorts' = 0
          /\ last'.op = "setPortIndex" =>
                 m_portIndex' = IF last'.arg[1] >= 1 /\ last'.arg[1] <= ports
                                THEN last'.arg[1]
                                ELSE 0]_vars

\* connectDevice() on an open port whose index the removal of a port has
\* left beyond the list: the port is closed and none is opened
C39_Witness ==
    /\ last.op = "connectDevice"
    /\ last.prePort = "open"
    /\ m_portIndex > ports
    /\ configurationOk
    /\ last.created = 0
    /\ m_port = "null"

=============================================================================
